---- MODULE Spec2Model ----
(***************************************************************************)
(* A model of the session-log engine of the Claude + Codex history viewer: *)
(* the three IPC handlers of the main process (get-sessions,               *)
(* get-session-details, get-file-history-file) and the helpers they call,  *)
(* run against an explicit filesystem.                                     *)
(*                                                                         *)
(* JavaScript values are tagged records.  A string is a sequence of        *)
(* tokens: Ch(c) is the literal substring c (one character, or a name      *)
(* that is never split, such as ".jsonl"), Js(v) is the JSON text of the   *)
(* value v, Cut(v, n) is the first n characters of that text (a partly     *)
(* written line) and Blob(n) is n bytes of opaque file content.            *)
(***************************************************************************)
EXTENDS Integers, Sequences, FiniteSets, TLC

VARIABLES
    disk,      \* the filesystem: absolute path -> node
    request,   \* the arguments of the last IPC call
    reply,     \* what the last IPC call returned to the renderer
    fsCalls,   \* the fs.* calls the last IPC call made, in order
    renderer   \* the window: its module variables, its DOM and its pending IPC calls

vars == <<disk, request, reply, fsCalls, renderer>>

(***************************************************************************)
(* JavaScript values                                                       *)
(***************************************************************************)
Undef == [t |-> "undefined"]
Null == [t |-> "null"]
NaN == [t |-> "NaN"]
Bool(b) == [t |-> "boolean", b |-> b]
Num(n) == [t |-> "number", n |-> n]
Str(s) == [t |-> "string", s |-> s]
Arr(a) == [t |-> "array", a |-> a]
Obj(kv) == [t |-> "object", kv |-> kv]

typeof(v) ==
    CASE v.t \in {"null", "array", "object"} -> "object"
      [] v.t = "NaN" -> "number"
      [] OTHER -> v.t

Truthy(v) ==
    CASE v.t \in {"undefined", "null", "NaN"} -> FALSE
      [] v.t = "boolean" -> v.b
      [] v.t = "number" -> v.n # 0
      [] v.t = "string" -> v.s # <<>>
      [] OTHER -> TRUE

Nullish(v) == v.t \in {"undefined", "null"}

RECURSIVE Lookup(_, _)
Lookup(kv, k) ==
    IF kv = <<>> THEN Undef
    ELSE IF kv[1][1] = k THEN kv[1][2]
    ELSE Lookup(Tail(kv), k)

\* v.k for a value that is not null or undefined (those throw a TypeError,
\* which the callers model where it can happen).
Get(v, k) == IF v.t = "object" THEN Lookup(v.kv, k) ELSE Undef

\* a ?? b
Coalesce(a, b) == IF Nullish(a) THEN b ELSE a

\* a || b
OrElse(a, b) == IF Truthy(a) THEN a ELSE b

IsStr(v) == v.t = "string"

(***************************************************************************)
(* Strings                                                                 *)
(***************************************************************************)
Ch(c) == [k |-> "ch", c |-> c]
Js(v) == [k |-> "json", v |-> v, pretty |-> FALSE]
JsPretty(v) == [k |-> "json", v |-> v, pretty |-> TRUE]
Cut(v, n) == [k |-> "cut", v |-> v, n |-> n]
Blob(n) == [k |-> "blob", n |-> n]

\* The string made of the given literal substrings.
T(cs) == [i \in 1..Len(cs) |-> Ch(cs[i])]
S(cs) == Str(T(cs))

IsSpaceTok(tok) == tok.k = "ch" /\ tok.c \in {" ", "\n"}

RECURSIVE TrimStart(_)
TrimStart(s) ==
    IF s # <<>> /\ IsSpaceTok(s[1]) THEN TrimStart(Tail(s)) ELSE s

RECURSIVE TrimEnd(_)
TrimEnd(s) ==
    IF s # <<>> /\ IsSpaceTok(s[Len(s)])
    THEN TrimEnd(SubSeq(s, 1, Len(s) - 1))
    ELSE s

\* String.prototype.trim
Trim(s) == TrimEnd(TrimStart(s))

\* The number of characters of a literal substring (the ellipsis stands for
\* the three characters the source file holds there).
TokLen(c) ==
    CASE c \in {"..", "b1", "c1", "c2", "f1", "f2", "hi", "ls", "ok", "r1", "r2", "s1", "s2", "s3",
               "t1", "t2",
               "u1", "u2", "u3", "u4", "u5", "u6", "u9"} -> 2
      [] c \in {"-la", "<ellipsis>", "NaN", "big", "dir", "old"} -> 3
      [] c \in {"2025", "Bash", "a..b", "auth", "diff", "home", "nope", "proj", "text",
               "tool", "user"} -> 4
      [] c \in {" and ", "<cwd>", "Codex", "codex", "shell"} -> 5
      [] c \in {".codex", ".jsonl", "</cwd>", "agent-", "claude", "ls -la", "secret"} -> 6
      [] c \in {" chars]", ".claude", "message"} -> 7
      [] c \in {"not json", "projects", "sessions", "tool_use"} -> 8
      [] c \in {"assistant", "undefined"} -> 9
      [] c \in {" [truncated ", "file-history", "session_meta"} -> 12
      [] c \in {"function_call", "history.jsonl", "response_item"} -> 13
      [] c \in {"[object Object]"} -> 15
      [] c \in {"<environment_context>", "file-history-snapshot"} -> 21
      [] c \in {"</environment_context>"} -> 22
      [] c \in {"No sessions found. Looked in "} -> 29
      [] OTHER -> 1

KeyLen(k) ==
    CASE k \in {"id"} -> 2
      [] k \in {"cmd", "cwd", "git"} -> 3
      [] k \in {"type", "role", "name", "text", "uuid", "args"} -> 4
      [] k \in {"input", "patch", "query"} -> 5
      [] k \in {"script", "kwargs", "branch"} -> 6
      [] k \in {"message", "content", "payload", "command", "call_id"} -> 7
      [] k \in {"snapshot"} -> 8
      [] k \in {"timestamp", "messageId", "arguments"} -> 9
      [] k \in {"created_at", "parameters"} -> 10
      [] k \in {"commandLine"} -> 11
      [] k \in {"shell_command"} -> 13
      [] k \in {"repository_url"} -> 14
      [] k \in {"isSnapshotUpdate"} -> 16
      [] k \in {"trackedFileBackups"} -> 18
      [] OTHER -> 1

\* The number of decimal digits of n >= 0.
RECURSIVE Digits(_)
Digits(n) == IF n < 10 THEN 1 ELSE 1 + Digits(n \div 10)

RECURSIVE SumSeq(_)
SumSeq(ns) == IF ns = <<>> THEN 0 ELSE ns[1] + SumSeq(Tail(ns))

\* The length of JSON.stringify(v) (d < 0) or of JSON.stringify(v, null, 2)
\* for a value at nesting depth d; characters that JSON escapes count once.
RECURSIVE JsonLen(_, _), TextLen(_)
JsonLen(v, d) ==
    LET next == IF d < 0 THEN d ELSE d + 1
        pad == IF d < 0 THEN 0 ELSE 2 * next
        sepLen == IF d < 0 THEN 1 ELSE 2
        wrap(n, inner) ==
            IF n = 0 THEN 2
            ELSE IF d < 0 THEN 2 + inner + (n - 1)
            ELSE 2 + inner + n * pad + (n - 1) + n + 2 * d
    IN  CASE v.t = "boolean" -> IF v.b THEN 4 ELSE 5
          [] v.t = "number" -> Digits(v.n)
          [] v.t = "string" -> 2 + TextLen(v.s)
          [] v.t = "array" ->
                wrap(Len(v.a), SumSeq([i \in 1..Len(v.a) |-> JsonLen(v.a[i], next)]))
          [] v.t = "object" ->
                wrap(Len(v.kv),
                     SumSeq([i \in 1..Len(v.kv) |->
                        KeyLen(v.kv[i][1]) + 2 + sepLen + JsonLen(v.kv[i][2], next)]))
          [] OTHER -> 4
TextLen(s) ==
    IF s = <<>> THEN 0
    ELSE LET tok == s[1]
             n == CASE tok.k = "ch" -> TokLen(tok.c)
                    [] tok.k = "json" -> JsonLen(tok.v, IF tok.pretty THEN 0 ELSE -1)
                    [] OTHER -> tok.n
         IN  n + TextLen(Tail(s))

\* text.slice(0, max): whole tokens while they fit, then the part of the
\* next token that fits.
RECURSIVE SliceText(_, _)
SliceText(s, max) ==
    IF s = <<>> \/ max <= 0 THEN <<>>
    ELSE LET tok == s[1]
             n == TextLen(<<tok>>)
         IN  IF n <= max THEN <<tok>> \o SliceText(Tail(s), max - n)
             ELSE CASE tok.k \in {"json", "cut"} -> <<Cut(tok.v, max)>>
                    [] tok.k = "blob" -> <<Blob(max)>>
                    [] OTHER -> <<>>

\* JSON.parse accepts exactly one JSON text, surrounded by optional white
\* space; anything else (free text, a partly written text) is a SyntaxError.
JsonParses(text) ==
    LET t == Trim(text) IN Len(t) = 1 /\ t[1].k = "json"

JsonParse(text) == Trim(text)[1].v

safeJsonParse(line) == IF JsonParses(line) THEN JsonParse(line) ELSE Null

(***************************************************************************)
(* Tool-call normaliser                                                    *)
(***************************************************************************)
UiMax == 12000
CommandMax == 4000

truncateForUi(text, max) ==
    IF ~IsStr(text) THEN Str(<<>>)
    ELSE IF TextLen(text.s) <= max THEN text
    ELSE LET remaining == TextLen(text.s) - max
         IN  Str(SliceText(text.s, max)
                 \o <<Ch("\n"), Ch("<ellipsis>"), Ch(" [truncated "), Js(Num(remaining)),
                      Ch(" chars]")>>)

\* parseStructuredPayload without the typeof parsed === 'object' test
parseStructuredPayloadAnyJson(value) ==
    IF ~Truthy(value) THEN Null
    ELSE IF typeof(value) = "object" THEN value
    ELSE IF IsStr(value)
    THEN LET trimmed == Trim(value.s)
             parsed == safeJsonParse(trimmed)
         IN  IF trimmed = <<>> THEN Null
             ELSE IF Truthy(parsed) THEN parsed
             ELSE Null
    ELSE Null

parseStructuredPayload(value) ==
    IF ~Truthy(value) THEN Null
    ELSE IF typeof(value) = "object" THEN value
    ELSE IF IsStr(value)
    THEN LET trimmed == Trim(value.s)
             parsed == safeJsonParse(trimmed)
         IN  IF trimmed = <<>> THEN Null
             ELSE IF Truthy(parsed) /\ typeof(parsed) = "object" THEN parsed
             ELSE Null
    ELSE Null

preferredKeys ==
    <<"cmd", "command", "shell_command", "commandLine", "script", "patch", "query">>

MaxDepth == 4

\* The first of the values vs (in order) that is truthy, else null.
RECURSIVE FirstFound(_)
FirstFound(vs) ==
    IF vs = <<>> THEN Null
    ELSE IF Truthy(vs[1]) THEN vs[1]
    ELSE FirstFound(Tail(vs))

\* The search without the pass over preferredKeys: the first string in key
\* order.
RECURSIVE findCommandLikeStringInKeyOrder(_, _)
findCommandLikeStringInKeyOrder(value, depth) ==
    IF depth > MaxDepth \/ Nullish(value) THEN Null
    ELSE IF IsStr(value)
    THEN (IF Trim(value.s) # <<>> THEN Str(Trim(value.s)) ELSE Null)
    ELSE IF value.t = "array"
    THEN FirstFound([i \in 1..Len(value.a) |->
                        findCommandLikeStringInKeyOrder(value.a[i], depth + 1)])
    ELSE IF typeof(value) # "object" THEN Null
    ELSE FirstFound([i \in 1..Len(value.kv) |->
                        findCommandLikeStringInKeyOrder(value.kv[i][2], depth + 1)])

RECURSIVE findCommandLikeString(_, _)
findCommandLikeString(value, depth) ==
    IF depth > MaxDepth \/ Nullish(value) THEN Null
    ELSE IF IsStr(value)
    THEN (IF Trim(value.s) # <<>> THEN Str(Trim(value.s)) ELSE Null)
    ELSE IF value.t = "array"
    THEN FirstFound([i \in 1..Len(value.a) |->
                        findCommandLikeString(value.a[i], depth + 1)])
    ELSE IF typeof(value) # "object" THEN Null
    ELSE LET hits == SelectSeq(preferredKeys,
                        LAMBDA key: IsStr(Get(value, key))
                                    /\ Trim(Get(value, key).s) # <<>>)
         IN  IF hits # <<>> THEN Str(Trim(Get(value, hits[1]).s))
             ELSE FirstFound([i \in 1..Len(value.kv) |->
                                findCommandLikeString(value.kv[i][2], depth + 1)])

stringifyPayloadForUiCompact(payload) ==
    IF Nullish(payload) THEN Str(<<>>)
    ELSE IF IsStr(payload) THEN truncateForUi(payload, UiMax)
    ELSE truncateForUi(Str(<<Js(payload)>>), UiMax)

stringifyPayloadForUi(payload) ==
    IF Nullish(payload) THEN Str(<<>>)
    ELSE IF IsStr(payload) THEN truncateForUi(payload, UiMax)
    ELSE truncateForUi(Str(<<JsPretty(payload)>>), UiMax)

normalizeToolUse(name, payloadSource, fallbackTextArg, callIdArg) ==
    LET fallbackText == IF fallbackTextArg = Undef THEN Str(<<>>) ELSE fallbackTextArg
        callId == IF callIdArg = Undef THEN Null ELSE callIdArg
        payload == parseStructuredPayload(payloadSource)
        rawPayloadText ==
            IF IsStr(payloadSource) THEN Str(Trim(payloadSource.s)) ELSE Str(<<>>)
        rawFallback ==
            IF IsStr(fallbackText) THEN Str(Trim(fallbackText.s)) ELSE Str(<<>>)
        command ==
            OrElse(findCommandLikeString(payload, 0),
                   OrElse(IF Truthy(rawPayloadText)
                             /\ ~Truthy(parseStructuredPayload(rawPayloadText))
                          THEN rawPayloadText ELSE Str(<<>>),
                          rawFallback))
        payloadText ==
            IF Truthy(payload) THEN stringifyPayloadForUi(payload)
            ELSE IF Truthy(rawPayloadText) /\ rawPayloadText # command
            THEN truncateForUi(rawPayloadText, UiMax)
            ELSE IF Truthy(rawFallback) /\ rawFallback # command
            THEN truncateForUi(rawFallback, UiMax)
            ELSE Str(<<>>)
    IN  [name |-> OrElse(name, S(<<"tool">>)),
         command |-> truncateForUi(OrElse(command, Str(<<>>)), CommandMax),
         payload |-> payloadText,
         callId |-> OrElse(callId, Null)]

(***************************************************************************)
(* Paths (posix: path.sep is "/").  A path is the sequence of its          *)
(* segments from the root; a segment is a string without "/".              *)
(***************************************************************************)
Sg(name) == <<Ch(name)>>
Sep == Ch("/")

\* text.split(sep)
RECURSIVE SplitOn(_, _)
SplitOn(text, sep) ==
    IF \A i \in 1..Len(text) : text[i] # sep THEN <<text>>
    ELSE LET i == CHOOSE i \in 1..Len(text) :
                    text[i] = sep /\ \A j \in 1..(i - 1) : text[j] # sep
         IN  <<SubSeq(text, 1, i - 1)>> \o SplitOn(SubSeq(text, i + 1, Len(text)), sep)

\* Empty and "." segments are dropped, ".." removes the segment before it
\* (and is dropped at the root).
RECURSIVE NormalizeOnto(_, _)
NormalizeOnto(done, segs) ==
    IF segs = <<>> THEN done
    ELSE LET seg == segs[1]
         IN  IF seg = <<>> \/ seg = Sg(".") THEN NormalizeOnto(done, Tail(segs))
             ELSE IF seg = Sg("..")
             THEN NormalizeOnto(IF done = <<>> THEN done
                                ELSE SubSeq(done, 1, Len(done) - 1), Tail(segs))
             ELSE NormalizeOnto(Append(done, seg), Tail(segs))

IsAbsolute(text) == text # <<>> /\ text[1] = Sep

\* path.join(base, ...parts) for an absolute base
RECURSIVE pathJoin(_, _)
pathJoin(base, parts) ==
    IF parts = <<>> THEN base
    ELSE pathJoin(NormalizeOnto(base, SplitOn(parts[1], Sep)), Tail(parts))

\* path.resolve(base, ...parts) for an absolute base
RECURSIVE pathResolve(_, _)
pathResolve(base, parts) ==
    IF parts = <<>> THEN base
    ELSE pathResolve(NormalizeOnto(IF IsAbsolute(parts[1]) THEN <<>> ELSE base,
                                   SplitOn(parts[1], Sep)),
                     Tail(parts))

\* resolvedPath.startsWith(resolvedBase + path.sep)
StartsWithBase(resolvedPath, resolvedBase) ==
    /\ Len(resolvedPath) > Len(resolvedBase)
    /\ SubSeq(resolvedPath, 1, Len(resolvedBase)) = resolvedBase

\* text.includes(c) for a one-character c
Includes(text, c) == \E i \in 1..Len(text) : text[i] = Ch(c)

\* text.includes('..')
IncludesDotDot(text) ==
    \/ \E i \in 1..Len(text) : text[i].k = "ch" /\ text[i].c \in {"..", "a..b"}
    \/ \E i \in 1..(Len(text) - 1) : text[i] = Ch(".") /\ text[i + 1] = Ch(".")

homeDir == <<Sg("home")>>
getClaudeConfigPath == homeDir \o <<Sg(".claude")>>
getCodexConfigPath == homeDir \o <<Sg(".codex")>>

(***************************************************************************)
(* The filesystem.  A node is a directory (its entries in the order        *)
(* readdir returns them) or a file (its content); either may be            *)
(* unreadable (EACCES).                                                    *)
(***************************************************************************)
Dir(entries) == [kind |-> "dir", entries |-> entries, readable |-> TRUE]
File(content) == [kind |-> "file", content |-> content, readable |-> TRUE]

Call(op, path) == [op |-> op, path |-> path]
ErrorObj(message) == [message |-> Str(<<Ch(message)>>)]

existsSync(d, p) == p \in DOMAIN d
IsDirectory(d, p) == d[p].kind = "dir"
IsFile(d, p) == d[p].kind = "file"
statThrows(d, p) == p \notin DOMAIN d
readdirThrows(d, p) == p \notin DOMAIN d \/ d[p].kind # "dir" \/ ~d[p].readable
readFileThrows(d, p) == p \notin DOMAIN d \/ d[p].kind # "file" \/ ~d[p].readable
fsError(d, p) ==
    IF p \notin DOMAIN d THEN ErrorObj("ENOENT: no such file or directory")
    ELSE IF ~d[p].readable THEN ErrorObj("EACCES: permission denied")
    ELSE IF d[p].kind = "dir" THEN ErrorObj("EISDIR: illegal operation on a directory")
    ELSE ErrorObj("ENOTDIR: not a directory")

(***************************************************************************)
(* What a handler body does: it returns a value or throws, after the fs    *)
(* calls it made.  The try/catch around each body turns a throw into       *)
(* {error: error.message}.                                                 *)
(***************************************************************************)
Return(value, calls) == [kind |-> "return", value |-> value, calls |-> calls]
Throw(err, calls) == [kind |-> "throw", err |-> err, calls |-> calls]
ErrorReply(message) == [kind |-> "error", error |-> Str(<<Ch(message)>>)]

Uncaught(outcome) ==
    IF outcome.kind = "throw" THEN [kind |-> "rejected", error |-> outcome.err.message]
    ELSE outcome.value

TryCatch(outcome) ==
    IF outcome.kind = "throw" THEN [kind |-> "error", error |-> outcome.err.message]
    ELSE outcome.value

(***************************************************************************)
(* ipcMain.handle('get-file-history-file')                                 *)
(***************************************************************************)
maxBytes == 2097152

fileHistoryRequestInvalidNoBackupCheck(sessionId, backupFileName) ==
    \/ ~IsStr(sessionId)
    \/ ~IsStr(backupFileName)
    \/ Includes(sessionId.s, "/")
    \/ Includes(sessionId.s, "\\")
    \/ IncludesDotDot(sessionId.s)

fileHistoryRequestInvalid(sessionId, backupFileName) ==
    \/ ~IsStr(sessionId)
    \/ ~IsStr(backupFileName)
    \/ Includes(sessionId.s, "/")
    \/ Includes(sessionId.s, "\\")
    \/ Includes(backupFileName.s, "/")
    \/ Includes(backupFileName.s, "\\")
    \/ IncludesDotDot(sessionId.s)
    \/ IncludesDotDot(backupFileName.s)

getFileHistoryFileBody(d, sessionId, backupFileName) ==
    LET baseDir == pathJoin(getClaudeConfigPath, <<Sg("file-history")>>)
    IN  IF fileHistoryRequestInvalid(sessionId, backupFileName)
        THEN Return(ErrorReply("Invalid file-history request"), <<>>)
        ELSE
        LET resolvedBase == pathResolve(baseDir, <<>>)
            resolvedPath == pathResolve(baseDir, <<sessionId.s, backupFileName.s>>)
            c1 == <<Call("existsSync", resolvedPath)>>
            c2 == Append(c1, Call("statSync", resolvedPath))
            c3 == Append(c2, Call("openSync", resolvedPath))
            c4 == c3 \o <<Call("readSync", resolvedPath), Call("closeSync", resolvedPath)>>
            c5 == Append(c2, Call("readFileSync", resolvedPath))
        IN  IF ~StartsWithBase(resolvedPath, resolvedBase)
            THEN Return(ErrorReply("Invalid file-history path"), <<>>)
            ELSE IF ~existsSync(d, resolvedPath)
            THEN Return(ErrorReply("Snapshot file not found"), c1)
            ELSE IF ~IsFile(d, resolvedPath)
            THEN Return(ErrorReply("Snapshot path is not a file"), c2)
            ELSE LET size == TextLen(d[resolvedPath].content)
                 IN  IF size > maxBytes
                     THEN IF readFileThrows(d, resolvedPath)
                          THEN Throw(fsError(d, resolvedPath), c3)
                          ELSE Return([kind |-> "content",
                                       content |-> Str(SliceText(d[resolvedPath].content,
                                                                 maxBytes)),
                                       truncated |-> TRUE,
                                       originalBytes |-> size], c4)
                     ELSE IF readFileThrows(d, resolvedPath)
                          THEN Throw(fsError(d, resolvedPath), c5)
                          ELSE Return([kind |-> "content",
                                       content |-> Str(d[resolvedPath].content)], c5)

getFileHistoryFile(d, sessionId, backupFileName) ==
    TryCatch(getFileHistoryFileBody(d, sessionId, backupFileName))

(***************************************************************************)
(* Record decoding and content extraction                                  *)
(***************************************************************************)
\* String(v), as a template literal or Array.prototype.join applies it
ToText(v) ==
    CASE v.t = "string" -> v.s
      [] v.t = "undefined" -> T(<<"undefined">>)
      [] v.t = "NaN" -> T(<<"NaN">>)
      [] v.t \in {"null", "number", "boolean"} -> <<Js(v)>>
      [] OTHER -> T(<<"[object Object]">>)

\* texts.join(sep)
RECURSIVE Join(_, _)
Join(texts, sep) ==
    IF texts = <<>> THEN <<>>
    ELSE IF Len(texts) = 1 THEN texts[1]
    ELSE texts[1] \o sep \o Join(Tail(texts), sep)

BlankLine == <<Ch("\n"), Ch("\n")>>

\* content.trim().split('\n').filter(line => line.trim())
SessionLines(content) ==
    SelectSeq(SplitOn(Trim(content), Ch("\n")), LAMBDA line : Trim(line) # <<>>)

\* content.trim().split('\n').filter(Boolean)
SessionLinesBoolean(content) ==
    SelectSeq(SplitOn(Trim(content), Ch("\n")), LAMBDA line : line # <<>>)

MapSeq(Op(_), s) == [i \in 1..Len(s) |-> Op(s[i])]

RECURSIVE DecodeUntilBadLine(_)
DecodeUntilBadLine(lines) ==
    IF lines = <<>> \/ ~JsonParses(lines[1]) THEN <<>>
    ELSE <<JsonParse(lines[1])>> \o DecodeUntilBadLine(Tail(lines))

\* lines.map(line => safeJsonParse(line)).filter(msg => msg !== null)
Decode(lines) ==
    SelectSeq(MapSeq(safeJsonParse, lines), LAMBDA msg : msg # Null)

\* block.type on a null or undefined block is a TypeError
HasNullishBlock(content) ==
    content.t = "array" /\ \E i \in 1..Len(content.a) : Nullish(content.a[i])

extractTextContentThrows(message) ==
    Truthy(message) /\ HasNullishBlock(Get(message, "content"))

extractTextContent(message) ==
    IF ~Truthy(message) THEN Str(<<>>)
    ELSE LET content == Get(message, "content")
         IN  IF IsStr(content) THEN content
             ELSE IF content.t = "array"
             THEN LET blocks == SelectSeq(content.a,
                                    LAMBDA block : Get(block, "type") = S(<<"text">>))
                      texts == [i \in 1..Len(blocks) |->
                                    LET text == Get(blocks[i], "text")
                                    IN  IF Nullish(text) THEN <<>> ELSE ToText(text)]
                  IN  Str(Join(texts, BlankLine))
             ELSE Str(<<>>)

extractCodexTextFromContentBlocks(content) ==
    IF ~Truthy(content) THEN Str(<<>>)
    ELSE IF IsStr(content) THEN content
    ELSE IF content.t = "array"
    THEN LET blockText(block) ==
                IF ~Truthy(block) \/ typeof(block) # "object" THEN <<>>
                ELSE IF IsStr(Get(block, "text")) THEN Get(block, "text").s
                ELSE IF IsStr(Get(block, "content")) THEN Get(block, "content").s
                ELSE <<>>
             texts == SelectSeq([i \in 1..Len(content.a) |-> blockText(content.a[i])],
                                LAMBDA text : text # <<>>)
         IN  Str(Join(texts, BlankLine))
    ELSE Str(<<>>)

unwrapCodexRecord(obj) ==
    IF ~Truthy(obj) \/ typeof(obj) # "object" THEN [timestamp |-> Null, rec |-> Null]
    ELSE IF Get(obj, "type") = S(<<"response_item">>)
            /\ Truthy(Get(obj, "payload"))
            /\ typeof(Get(obj, "payload")) = "object"
    THEN [timestamp |-> OrElse(Get(obj, "timestamp"), Null), rec |-> Get(obj, "payload")]
    ELSE [timestamp |-> OrElse(Get(obj, "timestamp"), Null), rec |-> obj]

IsCodexMessage(rec) ==
    /\ Get(rec, "type") = S(<<"message">>)
    /\ Get(rec, "role") \in {S(<<"user">>), S(<<"assistant">>)}

(***************************************************************************)
(* ipcMain.handle('get-session-details'): Family B (Codex)                 *)
(***************************************************************************)
RECURSIVE codexDefaultTimestamp(_)
codexDefaultTimestamp(records) ==
    IF records = <<>> THEN Null
    ELSE LET rec == records[1]
         IN  IF typeof(rec) = "object" /\ Truthy(Get(rec, "timestamp"))
             THEN Get(rec, "timestamp")
             ELSE IF /\ typeof(rec) = "object"
                     /\ Get(rec, "type") = S(<<"session_meta">>)
                     /\ Truthy(Get(rec, "payload"))
                     /\ IsStr(Get(Get(rec, "payload"), "timestamp"))
             THEN Get(Get(rec, "payload"), "timestamp")
             ELSE codexDefaultTimestamp(Tail(records))

codexToolUse(rec) ==
    LET payloadSource ==
            Coalesce(Get(rec, "arguments"),
            Coalesce(Get(rec, "input"),
            Coalesce(Get(rec, "parameters"),
            Coalesce(Get(rec, "args"),
            Coalesce(Get(rec, "kwargs"), Null)))))
        fallbackText ==
            Coalesce(Get(rec, "command"),
            Coalesce(IF IsStr(Get(rec, "arguments")) THEN Get(rec, "arguments")
                     ELSE Str(<<>>),
                     Str(<<>>)))
    IN  normalizeToolUse(Get(rec, "name"), payloadSource, fallbackText,
                         OrElse(Get(rec, "call_id"), OrElse(Get(rec, "id"), Null)))

\* The record loop: acc.msgs is formattedMessages and acc.last the index in
\* it of lastAssistantMsg (0: null).
codexStep(acc, raw, defaultTimestamp) ==
    IF ~Truthy(raw) \/ typeof(raw) # "object" THEN acc
    ELSE
    LET wrapperTs == unwrapCodexRecord(raw).timestamp
        rec == unwrapCodexRecord(raw).rec
        timestamp ==
            OrElse(Get(rec, "timestamp"),
            OrElse(Get(rec, "created_at"),
            OrElse(wrapperTs, OrElse(defaultTimestamp, Null))))
    IN  IF ~Truthy(rec) \/ typeof(rec) # "object" THEN acc
        ELSE IF IsCodexMessage(rec)
        THEN LET msg == [role |-> Get(rec, "role"),
                         content |-> extractCodexTextFromContentBlocks(Get(rec, "content")),
                         timestamp |-> timestamp,
                         uuid |-> OrElse(Get(rec, "id"), Null),
                         toolUses |-> Arr(<<>>),
                         fileHistorySnapshots |-> Arr(<<>>)]
             IN  [msgs |-> Append(acc.msgs, msg),
                  last |-> IF Get(rec, "role") = S(<<"assistant">>)
                           THEN Len(acc.msgs) + 1 ELSE acc.last]
        ELSE IF Get(rec, "type") = S(<<"function_call">>) /\ IsStr(Get(rec, "name"))
        THEN LET placeholder ==
                    [role |-> S(<<"assistant">>),
                     content |-> Str(<<>>),
                     timestamp |-> timestamp,
                     uuid |-> OrElse(Get(rec, "call_id"), OrElse(Get(rec, "id"), Null)),
                     toolUses |-> Arr(<<>>),
                     fileHistorySnapshots |-> Arr(<<>>)]
                 msgs == IF acc.last = 0 THEN Append(acc.msgs, placeholder) ELSE acc.msgs
                 last == IF acc.last = 0 THEN Len(msgs) ELSE acc.last
             IN  [msgs |-> [msgs EXCEPT ![last].toolUses =
                                Arr(Append(@.a, codexToolUse(rec)))],
                  last |-> last]
        ELSE acc

RECURSIVE codexLoop(_, _, _)
codexLoop(acc, records, defaultTimestamp) ==
    IF records = <<>> THEN acc
    ELSE codexLoop(codexStep(acc, records[1], defaultTimestamp), Tail(records),
                   defaultTimestamp)

\* The loop run over the function calls before the messages.
codexFormattedMessagesCallsFirst(records) ==
    LET IsCall(raw) == Get(unwrapCodexRecord(raw).rec, "type") = S(<<"function_call">>)
    IN  codexLoop([msgs |-> <<>>, last |-> 0],
                  SelectSeq(records, IsCall) \o SelectSeq(records, LAMBDA raw : ~IsCall(raw)),
                  codexDefaultTimestamp(records)).msgs

codexFormattedMessages(records) ==
    codexLoop([msgs |-> <<>>, last |-> 0], records, codexDefaultTimestamp(records)).msgs

codexKeeps(msg) ==
    \/ Truthy(msg.content) /\ Trim(ToText(msg.content)) # <<>>
    \/ Truthy(msg.toolUses) /\ Len(msg.toolUses.a) > 0

\* slice(2)
DropTwo(s) == SubSeq(s, 3, Len(s))

codexMessagesSliceFirst(records) ==
    SelectSeq(DropTwo(codexFormattedMessages(records)), codexKeeps)

\* codexMessages that keeps the two newest entries instead of dropping the
\* two oldest
codexMessagesNewestTwo(records) ==
    LET cleaned == SelectSeq(codexFormattedMessages(records), codexKeeps)
    IN  IF Len(cleaned) <= 2 THEN cleaned
        ELSE SubSeq(cleaned, Len(cleaned) - 1, Len(cleaned))

codexMessages(records) ==
    DropTwo(SelectSeq(codexFormattedMessages(records), codexKeeps))

(***************************************************************************)
(* ipcMain.handle('get-session-details'): Family A (Claude)                *)
(***************************************************************************)
IsSnapshotRecord(msg) ==
    /\ Get(msg, "type") = S(<<"file-history-snapshot">>)
    /\ Truthy(Get(msg, "messageId"))
    /\ Truthy(Get(msg, "snapshot"))

\* The index that keeps the last snapshot of a message only.
fileHistorySnapshotsLastOnly(messages, uuid) ==
    LET recs == SelectSeq(messages,
                    LAMBDA msg : IsSnapshotRecord(msg) /\ Get(msg, "messageId") = uuid
                                 /\ typeof(uuid) # "object")
        last == IF recs = <<>> THEN recs ELSE <<recs[Len(recs)]>>
    IN  Arr([i \in 1..Len(last) |->
            [messageId |-> Get(last[i], "messageId"),
             timestamp |-> Get(Get(last[i], "snapshot"), "timestamp"),
             isSnapshotUpdate |-> Truthy(Get(last[i], "isSnapshotUpdate")),
             trackedFileBackups |->
                OrElse(Get(Get(last[i], "snapshot"), "trackedFileBackups"), Obj(<<>>))]])

\* fileHistorySnapshotsByMessageId.get(uuid) || []
fileHistorySnapshotsByMessageId(messages, uuid) ==
    LET recs == SelectSeq(messages,
                    LAMBDA msg : IsSnapshotRecord(msg) /\ Get(msg, "messageId") = uuid
                                 /\ typeof(uuid) # "object")
    IN  Arr([i \in 1..Len(recs) |->
            [messageId |-> Get(recs[i], "messageId"),
             timestamp |-> Get(Get(recs[i], "snapshot"), "timestamp"),
             isSnapshotUpdate |-> Truthy(Get(recs[i], "isSnapshotUpdate")),
             trackedFileBackups |->
                OrElse(Get(Get(recs[i], "snapshot"), "trackedFileBackups"), Obj(<<>>))]])

IsClaudeMessageRecord(msg) ==
    /\ Get(msg, "type") \in {S(<<"user">>), S(<<"assistant">>)}
    /\ Truthy(Get(msg, "message"))

\* msg.message.content?.filter(...) is a TypeError when content is neither
\* nullish nor an array, and block.type is one when a block is nullish.
claudeToolUsesThrows(message) ==
    LET content == Get(message, "content")
    IN  ~Nullish(content) /\ (content.t # "array" \/ HasNullishBlock(content))

\* claudeToolUses with the newest block first
claudeToolUsesNewestFirst(message) ==
    LET content == Get(message, "content")
    IN  IF Nullish(content) THEN Arr(<<>>)
        ELSE LET blocks == SelectSeq(content.a,
                                LAMBDA block : Get(block, "type") = S(<<"tool_use">>))
             IN  Arr([i \in 1..Len(blocks) |->
                    normalizeToolUse(
                        Get(blocks[Len(blocks) + 1 - i], "name"),
                        Coalesce(Get(blocks[Len(blocks) + 1 - i], "input"), Null),
                        Str(<<>>),
                        OrElse(Get(blocks[Len(blocks) + 1 - i], "id"), Null))])

claudeToolUses(message) ==
    LET content == Get(message, "content")
    IN  IF Nullish(content) THEN Arr(<<>>)
        ELSE LET blocks == SelectSeq(content.a,
                                LAMBDA block : Get(block, "type") = S(<<"tool_use">>))
             IN  Arr([i \in 1..Len(blocks) |->
                    normalizeToolUse(
                        Get(blocks[i], "name"),
                        Coalesce(Get(blocks[i], "input"),
                        Coalesce(Get(blocks[i], "arguments"),
                        Coalesce(Get(blocks[i], "parameters"), Null))),
                        IF IsStr(Get(blocks[i], "input")) THEN Get(blocks[i], "input")
                        ELSE Str(<<>>),
                        OrElse(Get(blocks[i], "id"), Null))])

claudeFormatThrows(msg) ==
    \/ extractTextContentThrows(Get(msg, "message"))
    \/ Get(msg, "type") = S(<<"assistant">>) /\ claudeToolUsesThrows(Get(msg, "message"))

claudeFormat(messages, msg) ==
    [role |-> Get(msg, "type"),
     content |-> extractTextContent(Get(msg, "message")),
     timestamp |-> Get(msg, "timestamp"),
     uuid |-> Get(msg, "uuid"),
     toolUses |-> IF Get(msg, "type") = S(<<"assistant">>)
                  THEN claudeToolUses(Get(msg, "message")) ELSE Undef,
     fileHistorySnapshots |-> fileHistorySnapshotsByMessageId(messages, Get(msg, "uuid"))]

claudeKeepsEverything(msg) == TRUE

claudeKeeps(msg) ==
    \/ Truthy(msg.content) /\ Trim(msg.content.s) # <<>>
    \/ Truthy(msg.toolUses) /\ Len(msg.toolUses.a) > 0
    \/ Truthy(msg.fileHistorySnapshots) /\ Len(msg.fileHistorySnapshots.a) > 0

claudeMessagesThrow(messages) ==
    \E i \in 1..Len(messages) :
        IsClaudeMessageRecord(messages[i]) /\ claudeFormatThrows(messages[i])

claudeMessages(messages) ==
    LET kept == SelectSeq(messages, IsClaudeMessageRecord)
    IN  SelectSeq([i \in 1..Len(kept) |-> claudeFormat(messages, kept[i])], claudeKeeps)

(***************************************************************************)
(* ipcMain.handle('get-session-details')                                   *)
(***************************************************************************)
MessagesReply(messages) == [kind |-> "messages", messages |-> messages]

codexLocatorEscapes(resolvedPath, resolvedBase) ==
    ~StartsWithBase(resolvedPath, resolvedBase)

getCodexSessionDetailsBody(d, sessionId, locator) ==
    LET sessionsBase == pathJoin(getCodexConfigPath, <<Sg("sessions")>>)
    IN  IF ~IsStr(locator) \/ Trim(locator.s) = <<>>
        THEN Return(ErrorReply("Invalid Codex session locator"), <<>>)
        ELSE
        LET resolvedBase == pathResolve(sessionsBase, <<>>)
            resolvedPath == pathResolve(sessionsBase, <<locator.s>>)
            c1 == <<Call("existsSync", resolvedPath)>>
            c2 == Append(c1, Call("readFileSync", resolvedPath))
        IN  IF codexLocatorEscapes(resolvedPath, resolvedBase)
            THEN Return(ErrorReply("Invalid Codex session path"), <<>>)
            ELSE IF ~existsSync(d, resolvedPath)
            THEN Return(ErrorReply("Session file not found"), c1)
            ELSE IF readFileThrows(d, resolvedPath)
            THEN Throw(fsError(d, resolvedPath), c2)
            ELSE Return(MessagesReply(
                            codexMessages(Decode(SessionLines(d[resolvedPath].content)))),
                        c2)

getClaudeSessionDetailsBody(d, sessionId, locator) ==
    LET projectsPath == pathJoin(getClaudeConfigPath, <<Sg("projects")>>)
    IN  IF ~IsStr(locator)
        THEN Throw(ErrorObj("The \"path\" argument must be of type string"), <<>>)
        ELSE
        LET sessionPath ==
                pathJoin(projectsPath, <<locator.s, ToText(sessionId) \o <<Ch(".jsonl")>>>>)
            c1 == <<Call("existsSync", sessionPath)>>
            c2 == Append(c1, Call("readFileSync", sessionPath))
        IN  IF ~existsSync(d, sessionPath)
            THEN Return(ErrorReply("Session file not found"), c1)
            ELSE IF readFileThrows(d, sessionPath)
            THEN Throw(fsError(d, sessionPath), c2)
            ELSE LET messages == Decode(SessionLines(d[sessionPath].content))
                 IN  IF claudeMessagesThrow(messages)
                     THEN Throw(ErrorObj("TypeError"), c2)
                     ELSE Return(MessagesReply(claudeMessages(messages)), c2)

getSessionDetailsBody(d, sessionId, locator, source) ==
    IF source = S(<<"codex">>)
    THEN getCodexSessionDetailsBody(d, sessionId, locator)
    ELSE getClaudeSessionDetailsBody(d, sessionId, locator)

getSessionDetails(d, sessionId, locator, source) ==
    TryCatch(getSessionDetailsBody(d, sessionId, locator, source))

(***************************************************************************)
(* ipcMain.handle('get-sessions'): Family A (Claude) scan                  *)
(***************************************************************************)
DateTok(ms) == [k |-> "date", n |-> 24, ms |-> ms]
IsoDate(ms) == Str(<<DateTok(ms)>>)

\* new Date(v).getTime()
DateGetTime(v) ==
    CASE v.t = "string" ->
            IF Len(v.s) = 1 /\ v.s[1].k = "date" THEN Num(v.s[1].ms) ELSE NaN
      [] v.t = "number" -> v
      [] v.t = "null" -> Num(0)
      [] v.t = "boolean" -> Num(IF v.b THEN 1 ELSE 0)
      [] OTHER -> NaN

EndsWith(text, c) == text # <<>> /\ text[Len(text)] = Ch(c)
StartsWith(text, c) == text # <<>> /\ text[1] = Ch(c)

\* text.replace(c, '') for a literal c: the first occurrence goes
RECURSIVE RemoveFirst(_, _)
RemoveFirst(text, c) ==
    IF text = <<>> THEN <<>>
    ELSE IF text[1] = Ch(c) THEN Tail(text)
    ELSE <<text[1]>> \o RemoveFirst(Tail(text), c)

\* projectDir.replace(/-/g, '/').substring(1), for a name whose first
\* literal substring is one character
projectNameOf(projectDir) ==
    LET slashed == [i \in 1..Len(projectDir) |->
                        IF projectDir[i] = Ch("-") THEN Sep ELSE projectDir[i]]
    IN  IF slashed = <<>> THEN <<>> ELSE Tail(slashed)

claudeProjectsPath == pathJoin(getClaudeConfigPath, <<Sg("projects")>>)
claudeHistoryPath == pathJoin(getClaudeConfigPath, <<Sg("history.jsonl")>>)

IsClaudeSessionFile(f) == EndsWith(f, ".jsonl") /\ ~StartsWith(f, "agent-")

IsCountedClaudeRecordUserOnly(m) == Get(m, "type") = S(<<"user">>)

IsCountedClaudeRecord(m) == Get(m, "type") \in {S(<<"user">>), S(<<"assistant">>)}

\* msg.type === 'user', without the test of msg.message
IsFirstUserCandidateAnyUser(msg) == Get(msg, "type") = S(<<"user">>)

IsFirstUserCandidate(msg) ==
    Get(msg, "type") = S(<<"user">>) /\ Truthy(Get(msg, "message"))

claudeMessageCount(messages) == Len(SelectSeq(messages, IsCountedClaudeRecord))

NoSummary == [kind |-> "none"]

\* The summary built from the decoded records and the first user record.
claudeSummaryRecord(projectDir, sessionFile, messages, firstUserMsg) ==
    IF extractTextContentThrows(Get(firstUserMsg, "message")) THEN NoSummary
    ELSE [kind |-> "summary",
          source |-> S(<<"claude">>),
          id |-> Str(RemoveFirst(sessionFile, ".jsonl")),
          timestamp |-> DateGetTime(Get(firstUserMsg, "timestamp")),
          display |->
            Str(SliceText(extractTextContent(Get(firstUserMsg, "message")).s, 100)),
          project |-> Str(projectNameOf(projectDir)),
          locator |-> Str(projectDir),
          messageCount |-> claudeMessageCount(messages)]

claudeSummaryOfMessages(projectDir, sessionFile, messages, users) ==
    IF users = <<>> THEN NoSummary
    ELSE claudeSummaryRecord(projectDir, sessionFile, messages, users[1])

claudeSummaryOfLines(projectDir, sessionFile, lines, messages) ==
    IF lines = <<>> THEN NoSummary
    ELSE claudeSummaryOfMessages(projectDir, sessionFile, messages,
                                 SelectSeq(messages, IsFirstUserCandidate))

\* The body of the per-file try: the summary the file adds to sessionMap,
\* or none (an empty file, no first user message, or a caught error).
claudeSummaryOf(d, projectDir, sessionFile) ==
    LET sessionPath == pathJoin(claudeProjectsPath, <<projectDir, sessionFile>>)
    IN  IF readFileThrows(d, sessionPath) THEN NoSummary
        ELSE claudeSummaryOfLines(projectDir, sessionFile,
                                  SessionLines(d[sessionPath].content),
                                  Decode(SessionLines(d[sessionPath].content)))

\* sessionMap.set(key, value), when the file gave a summary: a known key
\* keeps its place
MapSet(map, value) ==
    IF value = NoSummary THEN map
    ELSE IF \E i \in 1..Len(map) : map[i].id = value.id
    THEN [i \in 1..Len(map) |-> IF map[i].id = value.id THEN value ELSE map[i]]
    ELSE Append(map, value)

\* The loop without the per-file try: the first file that fails ends it.
RECURSIVE claudeScanFilesUntilFailure(_, _, _, _)
claudeScanFilesUntilFailure(d, projectDir, sessionFiles, acc) ==
    IF sessionFiles = <<>> THEN acc
    ELSE LET sessionPath == pathJoin(claudeProjectsPath, <<projectDir, sessionFiles[1]>>)
             called == [acc EXCEPT !.calls = Append(@, Call("readFileSync", sessionPath))]
         IN  IF readFileThrows(d, sessionPath) THEN called
             ELSE claudeScanFilesUntilFailure(d, projectDir, Tail(sessionFiles),
                    [called EXCEPT
                        !.map = MapSet(@, claudeSummaryOf(d, projectDir, sessionFiles[1]))])

RECURSIVE claudeScanFiles(_, _, _, _)
claudeScanFiles(d, projectDir, sessionFiles, acc) ==
    IF sessionFiles = <<>> THEN acc
    ELSE LET sessionPath == pathJoin(claudeProjectsPath, <<projectDir, sessionFiles[1]>>)
         IN  claudeScanFiles(d, projectDir, Tail(sessionFiles),
                [map |-> MapSet(acc.map, claudeSummaryOf(d, projectDir, sessionFiles[1])),
                 calls |-> Append(acc.calls, Call("readFileSync", sessionPath)),
                 threw |-> FALSE])

\* The loop over the project directories; a readdirSync that throws leaves
\* the loop and the whole Claude try block.
RECURSIVE claudeScanDirs(_, _, _)
claudeScanDirs(d, projectDirs, acc) ==
    IF projectDirs = <<>> THEN acc
    ELSE LET projectDir == projectDirs[1]
             projectPath == pathJoin(claudeProjectsPath, <<projectDir>>)
             stated == [acc EXCEPT !.calls = Append(@, Call("statSync", projectPath))]
             listed == [stated EXCEPT !.calls = Append(@, Call("readdirSync", projectPath))]
         IN  IF statThrows(d, projectPath) \/ ~IsDirectory(d, projectPath)
             THEN claudeScanDirs(d, Tail(projectDirs), stated)
             ELSE IF readdirThrows(d, projectPath)
             THEN [listed EXCEPT !.threw = TRUE]
             ELSE claudeScanDirs(d, Tail(projectDirs),
                    claudeScanFiles(d, projectDir,
                        SelectSeq(d[projectPath].entries, IsClaudeSessionFile), listed))

\* The Claude try block: the sessions it pushes (none when it threw before
\* sessions.push) and its fs calls.
claudeScan(d) ==
    LET e1 == <<Call("existsSync", claudeProjectsPath)>>
        r1 == Append(e1, Call("readdirSync", claudeProjectsPath))
        h1 == Append(e1, Call("existsSync", claudeHistoryPath))
    IN  IF existsSync(d, claudeProjectsPath)
        THEN IF readdirThrows(d, claudeProjectsPath)
             THEN [sessions |-> <<>>, calls |-> r1]
             ELSE LET scan == claudeScanDirs(d, d[claudeProjectsPath].entries,
                                    [map |-> <<>>, calls |-> r1, threw |-> FALSE])
                  IN  [sessions |-> IF scan.threw THEN <<>> ELSE scan.map,
                       calls |-> scan.calls]
        ELSE [sessions |-> <<>>,
              calls |-> IF existsSync(d, claudeHistoryPath)
                        THEN Append(h1, Call("existsSync", claudeProjectsPath))
                        ELSE Append(h1, Call("existsSync", claudeHistoryPath))]

(***************************************************************************)
(* ipcMain.handle('get-sessions'): Family B (Codex) scan                   *)
(***************************************************************************)
codexSessionsPath == pathJoin(getCodexConfigPath, <<Sg("sessions")>>)

\* The stack walk of listFilesRecursive, with predicate p => p.endsWith('.jsonl');
\* acc.results are the files found, acc.calls the readdirSync calls.
RECURSIVE listFilesWalk(_, _, _)
listFilesWalk(d, stack, acc) ==
    IF stack = <<>> THEN acc
    ELSE LET dir == stack[Len(stack)]
             rest == SubSeq(stack, 1, Len(stack) - 1)
             called == [acc EXCEPT !.calls = Append(@, Call("readdirSync", dir))]
         IN  IF readdirThrows(d, dir) THEN listFilesWalk(d, rest, called)
             ELSE LET paths == [i \in 1..Len(d[dir].entries) |->
                                    Append(dir, d[dir].entries[i])]
                      subdirs == SelectSeq(paths, LAMBDA p : IsDirectory(d, p))
                      files == SelectSeq(paths,
                                  LAMBDA p : IsFile(d, p) /\ EndsWith(p[Len(p)], ".jsonl"))
                  IN  listFilesWalk(d, rest \o subdirs,
                                    [called EXCEPT !.results = @ \o files])

listFilesRecursive(d, baseDir) ==
    LET e1 == <<Call("existsSync", baseDir)>>
    IN  IF ~existsSync(d, baseDir) THEN [results |-> <<>>, calls |-> e1]
        ELSE listFilesWalk(d, <<baseDir>>, [results |-> <<>>, calls |-> e1])

\* path.relative(sessionsPath, sessionFilePath) for a file below sessionsPath
pathRelative(base, p) ==
    Join(SubSeq(p, Len(base) + 1, Len(p)), <<Sep>>)

\* relPath.startsWith('..')
StartsWithDotDot(text) ==
    \/ text # <<>> /\ text[1].k = "ch" /\ text[1].c \in {".."}
    \/ Len(text) >= 2 /\ text[1] = Ch(".") /\ text[2] = Ch(".")

IsSessionMeta(obj) ==
    /\ Truthy(obj)
    /\ typeof(obj) = "object"
    /\ Get(obj, "type") = S(<<"session_meta">>)
    /\ Truthy(Get(obj, "payload"))

\* path.basename(sessionFilePath).replace(/\.jsonl$/, '')
basenameWithoutJsonl(p) ==
    LET name == p[Len(p)]
    IN  IF EndsWith(name, ".jsonl") THEN SubSeq(name, 1, Len(name) - 1) ELSE name

codexSessionId(firstObj, sessionFilePath) ==
    IF IsSessionMeta(firstObj)
       /\ IsStr(Get(Get(firstObj, "payload"), "id"))
       /\ Truthy(Get(Get(firstObj, "payload"), "id"))
    THEN Get(Get(firstObj, "payload"), "id")
    ELSE IF Truthy(firstObj) /\ IsStr(Get(firstObj, "id")) /\ Truthy(Get(firstObj, "id"))
    THEN Get(firstObj, "id")
    ELSE Str(basenameWithoutJsonl(sessionFilePath))

\* ts after the header: a number, or null
codexHeaderTs(firstObj) ==
    LET firstTs ==
            IF IsSessionMeta(firstObj)
               /\ IsStr(Get(Get(firstObj, "payload"), "timestamp"))
               /\ Truthy(Get(Get(firstObj, "payload"), "timestamp"))
            THEN Get(Get(firstObj, "payload"), "timestamp")
            ELSE IF Truthy(firstObj) /\ IsStr(Get(firstObj, "timestamp"))
                    /\ Truthy(Get(firstObj, "timestamp"))
            THEN Get(firstObj, "timestamp")
            ELSE Null
    IN  IF Truthy(firstTs) /\ DateGetTime(firstTs) # NaN THEN DateGetTime(firstTs)
        ELSE Null

\* text.match(/<cwd>([^<]+)<\/cwd>/): the first <cwd> that is followed by
\* one or more characters other than "<" and then </cwd>
HasLt(tok) ==
    tok.k # "ch" \/ tok.c \in {"<", "<cwd>", "</cwd>", "<environment_context>",
                               "</environment_context>"}

tryExtractCwdFromEnvText(text) ==
    IF ~Truthy(text) \/ ~IsStr(text) THEN Null
    ELSE LET s == text.s
             Match(i, j) ==
                /\ s[i] = Ch("<cwd>")
                /\ s[j] = Ch("</cwd>")
                /\ j > i + 1
                /\ \A m \in (i + 1)..(j - 1) : ~HasLt(s[m])
             starts == {i \in 1..Len(s) : \E j \in 1..Len(s) : Match(i, j)}
         IN  IF starts = {} THEN Null
             ELSE LET i == CHOOSE i \in starts : \A m \in starts : i <= m
                      j == CHOOSE j \in 1..Len(s) : Match(i, j)
                  IN  Str(SubSeq(s, i + 1, j - 1))

isProbablyEnvironmentContextText(text) ==
    IF ~Truthy(text) \/ ~IsStr(text) THEN FALSE
    ELSE \E i \in 1..Len(Trim(text.s)) : Trim(text.s)[i] = Ch("<environment_context>")

IsCodexUserWithContent(rec) ==
    /\ Get(rec, "type") = S(<<"message">>)
    /\ Get(rec, "role") = S(<<"user">>)
    /\ Truthy(Get(rec, "content"))

\* One pass of the loop over the lines; acc holds cwd, displayText,
\* messageCount and ts.
codexListStep(acc, line) ==
    LET raw == safeJsonParse(line)
    IN  IF ~Truthy(raw) \/ typeof(raw) # "object" THEN acc
        ELSE
        LET cwd1 == IF ~Truthy(acc.cwd) /\ Get(raw, "type") = S(<<"session_meta">>)
                       /\ Truthy(Get(raw, "payload"))
                       /\ IsStr(Get(Get(raw, "payload"), "cwd"))
                    THEN Get(Get(raw, "payload"), "cwd") ELSE acc.cwd
            wrapperTs == unwrapCodexRecord(raw).timestamp
            rec == unwrapCodexRecord(raw).rec
        IN  IF ~Truthy(rec) \/ typeof(rec) # "object" THEN [acc EXCEPT !.cwd = cwd1]
            ELSE
            LET text == extractCodexTextFromContentBlocks(Get(rec, "content"))
                extracted == tryExtractCwdFromEnvText(text)
                cwd2 == IF ~Truthy(cwd1) /\ IsCodexUserWithContent(rec) /\ Truthy(extracted)
                        THEN extracted ELSE cwd1
                displayText ==
                    IF ~Truthy(acc.displayText) /\ IsCodexUserWithContent(rec)
                       /\ Truthy(text) /\ Trim(text.s) # <<>>
                       /\ ~isProbablyEnvironmentContextText(text)
                    THEN Str(Trim(text.s)) ELSE acc.displayText
                stamp == IF IsStr(wrapperTs) THEN wrapperTs
                         ELSE IF IsStr(Get(rec, "created_at")) THEN Get(rec, "created_at")
                         ELSE IF IsStr(Get(rec, "timestamp")) THEN Get(rec, "timestamp")
                         ELSE Undef
                ts == IF ~Truthy(acc.ts) /\ IsCodexUserWithContent(rec)
                         /\ DateGetTime(stamp) # NaN
                      THEN DateGetTime(stamp) ELSE acc.ts
            IN  [cwd |-> cwd2,
                 displayText |-> displayText,
                 messageCount |-> acc.messageCount + (IF IsCodexMessage(rec) THEN 1 ELSE 0),
                 ts |-> ts]

RECURSIVE codexListLoop(_, _)
codexListLoop(acc, lines) ==
    IF lines = <<>> THEN acc
    ELSE codexListLoop(codexListStep(acc, lines[1]), Tail(lines))

gitOf(holder) ==
    IF Truthy(Get(holder, "git"))
    THEN OrElse(Get(Get(holder, "git"), "repository_url"), Get(Get(holder, "git"), "branch"))
    ELSE Get(holder, "git")

\* codexSummaryRecord without the fallback to any first user message
codexSummaryRecordNoFallback(relPath, sessionFilePath, lines, firstObj, scanned) ==
    LET project ==
            OrElse(scanned.cwd,
            OrElse(IF IsSessionMeta(firstObj) THEN gitOf(Get(firstObj, "payload"))
                   ELSE Bool(FALSE),
            OrElse(IF Truthy(firstObj) THEN gitOf(firstObj) ELSE firstObj,
                   S(<<"Codex">>))))
    IN  [kind |-> "summary",
         source |-> S(<<"codex">>),
         id |-> codexSessionId(firstObj, sessionFilePath),
         timestamp |-> OrElse(scanned.ts, Num(0)),
         display |-> Str(SliceText(OrElse(scanned.displayText, Str(<<>>)).s, 100)),
         project |-> project,
         locator |-> Str(relPath),
         messageCount |-> scanned.messageCount]

\* The summary a session file pushes, given its lines, its decoded first
\* line and what the loop over the lines found.
codexSummaryRecord(relPath, sessionFilePath, lines, firstObj, scanned) ==
    LET recs == [i \in 1..Len(lines) |->
                    unwrapCodexRecord(safeJsonParse(lines[i])).rec]
        firstUsers == SelectSeq(recs,
                        LAMBDA o : Truthy(o) /\ IsCodexUserWithContent(o))
        displayText ==
            IF ~Truthy(scanned.displayText) /\ firstUsers # <<>>
            THEN Str(Trim(extractCodexTextFromContentBlocks(
                            Get(firstUsers[1], "content")).s))
            ELSE scanned.displayText
        project ==
            OrElse(scanned.cwd,
            OrElse(IF IsSessionMeta(firstObj) THEN gitOf(Get(firstObj, "payload"))
                   ELSE Bool(FALSE),
            OrElse(IF Truthy(firstObj) THEN gitOf(firstObj) ELSE firstObj,
                   S(<<"Codex">>))))
    IN  [kind |-> "summary",
         source |-> S(<<"codex">>),
         id |-> codexSessionId(firstObj, sessionFilePath),
         timestamp |-> OrElse(scanned.ts, Num(0)),
         display |-> Str(SliceText(OrElse(displayText, Str(<<>>)).s, 100)),
         project |-> project,
         locator |-> Str(relPath),
         messageCount |-> scanned.messageCount]

codexSummaryOfHeader(relPath, sessionFilePath, lines, firstObj) ==
    codexSummaryRecord(relPath, sessionFilePath, lines, firstObj,
        codexListLoop([cwd |-> Null, displayText |-> Str(<<>>), messageCount |-> 0,
                       ts |-> codexHeaderTs(firstObj)], lines))

codexSummaryOfLines(relPath, sessionFilePath, lines) ==
    IF lines = <<>> THEN NoSummary
    ELSE codexSummaryOfHeader(relPath, sessionFilePath, lines, safeJsonParse(lines[1]))

\* The body of the per-file try: the summary the file pushes, or none
\* (continue, or a caught error).
codexSummaryOf(d, sessionFilePath) ==
    LET relPath == pathRelative(codexSessionsPath, sessionFilePath)
    IN  IF relPath = <<>> \/ StartsWithDotDot(relPath) \/ IsAbsolute(relPath) THEN NoSummary
        ELSE IF readFileThrows(d, sessionFilePath) THEN NoSummary
        ELSE codexSummaryOfLines(relPath, sessionFilePath,
                                 SessionLinesBoolean(d[sessionFilePath].content))

\* sessions.push(summary), when the file gave one
PushSummary(sessions, summary) ==
    IF summary = NoSummary THEN sessions ELSE Append(sessions, summary)

RECURSIVE codexScanFiles(_, _, _)
codexScanFiles(d, jsonlFiles, acc) ==
    IF jsonlFiles = <<>> THEN acc
    ELSE LET relPath == pathRelative(codexSessionsPath, jsonlFiles[1])
             reads == relPath # <<>> /\ ~StartsWithDotDot(relPath) /\ ~IsAbsolute(relPath)
         IN  codexScanFiles(d, Tail(jsonlFiles),
                [sessions |-> PushSummary(acc.sessions, codexSummaryOf(d, jsonlFiles[1])),
                 calls |-> IF reads
                           THEN Append(acc.calls, Call("readFileSync", jsonlFiles[1]))
                           ELSE acc.calls])

codexScan(d) ==
    LET listed == listFilesRecursive(d, codexSessionsPath)
    IN  codexScanFiles(d, listed.results, [sessions |-> <<>>, calls |-> listed.calls])

(***************************************************************************)
(* ipcMain.handle('get-sessions'): merge, sort, reply                      *)
(***************************************************************************)
\* The collation rank of the literal substrings that ids are made of.
CharRank(c) ==
    CASE c = "a" -> 1 [] c = "b" -> 2 [] c = "c" -> 3 [] c = "d" -> 4 [] c = "dir" -> 5
      [] c = "f1" -> 6 [] c = "f2" -> 7 [] c = "f3" -> 8 [] c = "r1" -> 9
      [] c = "r2" -> 10 [] c = "s1" -> 11 [] c = "s2" -> 12 [] c = "s3" -> 13
      [] OTHER -> 0

TokRank(tok) == IF tok.k = "ch" THEN CharRank(tok.c) ELSE 0

\* x.localeCompare(y): negative, zero or positive
RECURSIVE localeCompare(_, _)
localeCompare(x, y) ==
    IF x = <<>> /\ y = <<>> THEN 0
    ELSE IF x = <<>> THEN -1
    ELSE IF y = <<>> THEN 1
    ELSE IF TokRank(x[1]) # TokRank(y[1]) THEN TokRank(x[1]) - TokRank(y[1])
    ELSE localeCompare(Tail(x), Tail(y))

\* timestamp || 0
TimestampOrZero(s) == IF s.timestamp.t = "number" THEN s.timestamp.n ELSE 0

\* (b.timestamp || 0) - (a.timestamp || 0) || String(a.id).localeCompare(String(b.id))
compareSessions(a, b) ==
    IF TimestampOrZero(b) - TimestampOrZero(a) # 0
    THEN TimestampOrZero(b) - TimestampOrZero(a)
    ELSE localeCompare(ToText(a.id), ToText(b.id))

\* Array.prototype.sort is stable: x goes after the entries it does not precede.
RECURSIVE InsertSorted(_, _)
InsertSorted(sorted, x) ==
    IF sorted = <<>> THEN <<x>>
    ELSE IF compareSessions(x, sorted[1]) < 0 THEN <<x>> \o sorted
    ELSE <<sorted[1]>> \o InsertSorted(Tail(sorted), x)

RECURSIVE sortSessions(_)
sortSessions(sessions) ==
    IF sessions = <<>> THEN <<>>
    ELSE InsertSorted(sortSessions(SubSeq(sessions, 1, Len(sessions) - 1)),
                      sessions[Len(sessions)])

PathText(p) == IF p = <<>> THEN <<Sep>> ELSE Join([i \in 1..Len(p) |-> <<Sep>> \o p[i]], <<>>)

NoSessionsError ==
    [kind |-> "error",
     error |-> Str(<<Ch("No sessions found. Looked in ")>> \o PathText(claudeHistoryPath)
                   \o <<Ch(" and ")>> \o PathText(codexSessionsPath))]

SessionsReply(sessions) == [kind |-> "sessions", sessions |-> sessions]

mergeSessionsClaudeOnly(claude, codex) == sortSessions(claude.sessions)

\* sessions.push(...) of both families, then sessions.sort(...)
mergeSessions(claude, codex) == sortSessions(claude.sessions \o codex.sessions)

sessionsOutcome(sessions, calls) ==
    IF sessions = <<>> THEN Return(NoSessionsError, calls)
    ELSE Return(SessionsReply(sessions), calls)

getSessionsOutcome(claude, codex) ==
    sessionsOutcome(mergeSessions(claude, codex), claude.calls \o codex.calls)

getSessionsBody(d) == getSessionsOutcome(claudeScan(d), codexScan(d))

getSessions(d) == TryCatch(getSessionsBody(d))

(***************************************************************************)
(* The IPC calls as actions.  The handlers only read the filesystem.       *)
(***************************************************************************)
Idle == [op |-> "none"]
NoReply == [kind |-> "none"]

\* The window before DOMContentLoaded: the module variables as declared,
\* an empty session list and chat container, no IPC call pending.
InitialRenderer ==
    [ loaded |-> FALSE,
      currentSessions |-> <<>>,
      currentSessionId |-> Null,
      currentSessionSource |-> S(<<"claude">>),
      currentSessionLocator |-> Null,
      isLoadingSessions |-> FALSE,
      isLoadingSessionDetails |-> FALSE,
      sessionList |-> <<>>,
      chatContainer |-> [kind |-> "empty"],
      sessionsCalls |-> <<>>,
      detailsCalls |-> <<>>,
      clicks |-> 0 ]

\* One IPC round trip: the handler's try/catch makes the reply.
Respond(call, outcome) ==
    /\ request' = call
    /\ reply' = TryCatch(outcome)
    /\ fsCalls' = outcome.calls
    /\ UNCHANGED <<disk, renderer>>

GetSessions == Respond([op |-> "get-sessions"], getSessionsBody(disk))

GetSessionDetails(sessionId, locator, source) ==
    Respond([op |-> "get-session-details", sessionId |-> sessionId,
             locator |-> locator, source |-> source],
            getSessionDetailsBody(disk, sessionId, locator, source))

GetFileHistoryFile(sessionId, backupFileName) ==
    Respond([op |-> "get-file-history-file", sessionId |-> sessionId,
             backupFileName |-> backupFileName],
            getFileHistoryFileBody(disk, sessionId, backupFileName))

(***************************************************************************)
(* Session records as the two tools write them                             *)
(***************************************************************************)
TextBlock(kind, text) == Obj(<< <<"type", S(<<kind>>)>>, <<"text", S(<<text>>)>> >>)

ToolUseBlock(name, input, id) ==
    Obj(<< <<"type", S(<<"tool_use">>)>>, <<"name", name>>, <<"input", input>>,
           <<"id", id>> >>)

LsCommand == Obj(<< <<"command", S(<<"ls -la">>)>> >>)

PatchArguments == Obj(<< <<"patch", S(<<"diff">>)>> >>)

ClaudeUser(uuid, ms, content) ==
    Obj(<< <<"type", S(<<"user">>)>>,
           <<"message", Obj(<< <<"role", S(<<"user">>)>>, <<"content", content>> >>)>>,
           <<"uuid", S(<<uuid>>)>>,
           <<"timestamp", IsoDate(ms)>> >>)

ClaudeAssistant(uuid, content) ==
    Obj(<< <<"type", S(<<"assistant">>)>>,
           <<"message", Obj(<< <<"role", S(<<"assistant">>)>>, <<"content", content>> >>)>>,
           <<"uuid", S(<<uuid>>)>> >>)

ClaudeSnapshot(messageId) ==
    Obj(<< <<"type", S(<<"file-history-snapshot">>)>>,
           <<"messageId", S(<<messageId>>)>>,
           <<"snapshot", Obj(<< <<"timestamp", IsoDate(300)>>,
                                <<"trackedFileBackups", Obj(<<>>)>> >>)>>,
           <<"isSnapshotUpdate", Bool(FALSE)>> >>)

ClaudeUserNoPayload == Obj(<< <<"type", S(<<"user">>)>>, <<"uuid", S(<<"u4">>)>> >>)

CodexMeta(id, ms) ==
    Obj(<< <<"type", S(<<"session_meta">>)>>,
           <<"payload", Obj(<< <<"id", S(<<id>>)>>, <<"timestamp", IsoDate(ms)>>,
                               <<"cwd", S(<<"/", "proj">>)>> >>)>> >>)

CodexMessage(role, content) ==
    Obj(<< <<"type", S(<<"message">>)>>, <<"role", S(<<role>>)>>, <<"content", content>> >>)

CodexWrapped(ms, payload) ==
    Obj(<< <<"type", S(<<"response_item">>)>>, <<"timestamp", IsoDate(ms)>>,
           <<"payload", payload>> >>)

CodexFunctionCall(name, arguments, callId) ==
    Obj(<< <<"type", S(<<"function_call">>)>>, <<"name", name>>,
           <<"arguments", arguments>>, <<"call_id", callId>> >>)

\* A user record whose payload is the empty string.
ClaudeUserEmptyPayload ==
    Obj(<< <<"type", S(<<"user">>)>>, <<"message", Str(<<>>)>>, <<"uuid", S(<<"u6">>)>> >>)

\* A line that is not JSON.
Garbage == T(<<"not json">>)

ClaudeLinePool ==
    { <<Js(ClaudeUser("u1", 100, S(<<"hi">>)))>>,
      <<Js(ClaudeAssistant("u2", Arr(<<TextBlock("text", "ok"),
                                       ToolUseBlock(S(<<"Bash">>), LsCommand, S(<<"t1">>))>>)))>>,
      <<Js(ClaudeAssistant("u3", Arr(<<>>)))>>,
      <<Js(ClaudeSnapshot("u3"))>>,
      <<Js(ClaudeUserNoPayload)>>,
      Garbage }

CodexLinePool ==
    { <<Js(CodexMeta("s1", 100))>>,
      <<Js(CodexMessage("user", Arr(<<TextBlock("input_text", "hi")>>)))>>,
      <<Js(CodexWrapped(200, CodexMessage("assistant",
                                Arr(<<TextBlock("output_text", "ok")>>))))>>,
      <<Js(CodexMessage("assistant", S(<<" ">>)))>>,
      <<Js(CodexFunctionCall(S(<<"shell">>), Str(<<Js(LsCommand)>>), S(<<"c1">>)))>>,
      Garbage }

\* The file made of the given lines, each ended by a line feed.
RECURSIVE FileOf(_)
FileOf(lines) ==
    IF lines = <<>> THEN <<>> ELSE lines[1] \o <<Ch("\n")>> \o FileOf(Tail(lines))

(***************************************************************************)
(* Filesystems                                                             *)
(***************************************************************************)
\* The filesystem holding the given <<path, node>> pairs.
DiskOf(pairs) ==
    [p \in {pair[1] : pair \in pairs} |-> (CHOOSE pair \in pairs : pair[1] = p)[2]]

IsPrefix(p, q) == Len(p) <= Len(q) /\ SubSeq(q, 1, Len(p)) = p

\* d without the tree at root (rm -r).
Prune(d, root) ==
    LET parent == SubSeq(root, 1, Len(root) - 1)
    IN  [p \in {q \in DOMAIN d : ~IsPrefix(root, q)} |->
            IF p = parent /\ d[p].kind = "dir"
            THEN [d[p] EXCEPT !.entries = SelectSeq(@, LAMBDA e : e # root[Len(root)])]
            ELSE d[p]]

\* d with a new node at path p, last in its directory.
Create(d, p, node) ==
    LET parent == SubSeq(p, 1, Len(p) - 1)
    IN  [q \in DOMAIN d \cup {p} |->
            IF q = p THEN node
            ELSE IF q = parent THEN [d[q] EXCEPT !.entries = Append(@, p[Len(p)])]
            ELSE d[q]]

SessionFileName(name) == <<Ch(name), Ch(".jsonl")>>
ProjDir == T(<<"-", "proj">>)

ClaudeS1 ==
    FileOf(<< <<Js(ClaudeUser("u1", 100, S(<<"hi">>)))>>,
              <<Js(ClaudeAssistant("u2", Arr(<<TextBlock("text", "ok")>>)))>> >>)

\* A user record whose content is a number: formatting it is a TypeError.
ClaudeS2 ==
    FileOf(<< <<Js(ClaudeUser("u1", 50, S(<<"hi">>)))>>,
              <<Js(ClaudeAssistant("u2", Num(7)))>> >>)

CodexR1 ==
    FileOf(<< <<Js(CodexMeta("r1", 200))>>,
              <<Js(CodexMessage("user", Arr(<<TextBlock("input_text", "a")>>)))>>,
              <<Js(CodexMessage("user", Arr(<<TextBlock("input_text", "b")>>)))>>,
              <<Js(CodexMessage("user", Arr(<<TextBlock("input_text", "hi")>>)))>> >>)

\* A first user record with a null content block: listing it is a TypeError.
ClaudeS3 ==
    FileOf(<< <<Js(ClaudeUser("u1", 70, Arr(<<Null>>)))>> >>)

CodexR2 ==
    FileOf(<< <<Js(CodexMeta("r2", 150))>>,
              <<Js(CodexMessage("user", Arr(<<TextBlock("input_text", "hi")>>)))>> >>)

SecretFile == FileOf(<< <<Js(ClaudeUser("u9", 10, S(<<"secret">>)))>> >>)

ClaudePairs ==
    LET c == getClaudeConfigPath
        p == claudeProjectsPath
        h == Append(c, Sg("file-history"))
    IN  { <<c, Dir(<<Sg("projects"), Sg("history.jsonl"), SessionFileName("secret"),
                    Sg("file-history")>>)>>,
          <<p, Dir(<<ProjDir>>)>>,
          <<Append(p, ProjDir),
            Dir(<<SessionFileName("s1"), SessionFileName("s3"), SessionFileName("s2"),
                  SessionFileName("dir")>>)>>,
          <<p \o <<ProjDir, SessionFileName("s3")>>, File(ClaudeS3)>>,
          <<p \o <<ProjDir, SessionFileName("s1")>>, File(ClaudeS1)>>,
          <<p \o <<ProjDir, SessionFileName("s2")>>, File(ClaudeS2)>>,
          <<p \o <<ProjDir, SessionFileName("dir")>>, Dir(<<>>)>>,
          <<claudeHistoryPath, File(<<>>)>>,
          <<Append(c, SessionFileName("secret")), File(SecretFile)>>,
          <<h, Dir(<<Sg("s1")>>)>>,
          <<Append(h, Sg("s1")), Dir(<<Sg("b1"), Sg("big"), Sg("d")>>)>>,
          <<h \o <<Sg("s1"), Sg("b1")>>, File(T(<<"old">>))>>,
          <<h \o <<Sg("s1"), Sg("big")>>, File(<<Blob(maxBytes + 1)>>)>>,
          <<h \o <<Sg("s1"), Sg("d")>>, Dir(<<>>)>> }

CodexPairs ==
    LET s == codexSessionsPath
    IN  { <<getCodexConfigPath, Dir(<<Sg("sessions"), SessionFileName("auth")>>)>>,
          <<s, Dir(<<Sg("2025")>>)>>,
          <<Append(s, Sg("2025")), Dir(<<SessionFileName("r1"), SessionFileName("r2")>>)>>,
          <<s \o <<Sg("2025"), SessionFileName("r2")>>, File(CodexR2)>>,
          <<s \o <<Sg("2025"), SessionFileName("r1")>>, File(CodexR1)>>,
          <<Append(getCodexConfigPath, SessionFileName("auth")), File(SecretFile)>> }

FullDisk ==
    DiskOf({ <<<<>>, Dir(<<Sg("home")>>)>>,
             <<homeDir, Dir(<<Sg(".claude"), Sg(".codex")>>)>> }
           \cup ClaudePairs \cup CodexPairs)

NoClaudeDisk == Prune(FullDisk, claudeProjectsPath)
NoCodexDisk == Prune(FullDisk, codexSessionsPath)
NoRootsDisk == Prune(NoClaudeDisk, codexSessionsPath)

FacadeDisks ==
    { FullDisk, NoClaudeDisk, NoCodexDisk, NoRootsDisk }

\* The nodes whose permissions change while the viewer runs.
ChmodPaths ==
    { claudeProjectsPath \o <<ProjDir, SessionFileName("s1")>>,
      codexSessionsPath \o <<Sg("2025"), SessionFileName("r1")>>,
      getClaudeConfigPath \o <<Sg("file-history"), Sg("s1"), Sg("b1")>> }

\* What the renderer, or anything else that can reach the channel, passes.
SessionIdPool == { S(<<"s1">>), S(<<"s2">>), S(<<"dir">>), S(<<"secret">>), S(<<"r1">>) }

LocatorPool ==
    { Str(ProjDir),
      S(<<"2025", "/", "r1", ".jsonl">>),
      S(<<"..">>),
      S(<<"..", "/", "auth", ".jsonl">>),
      S(<<"2025", "/", "..", "/", "2025", "/", "r1", ".jsonl">>),
      S(<<"/", "home", "/", ".codex", "/", "auth", ".jsonl">>),
      S(<<"/", "home", "/", ".codex", "/", "sessions", "/", "2025", "/", "r1", ".jsonl">>),
      S(<<" ">>),
      Num(5) }

SourcePool == { S(<<"claude">>), S(<<"codex">>), Undef }

FileHistoryIdPool == { S(<<"s1">>), S(<<"..">>), S(<<"a", "/", "b">>), S(<<>>), Num(5) }

BackupNamePool ==
    { S(<<"b1">>), S(<<"big">>), S(<<"d">>), S(<<"nope">>), S(<<"..">>),
      S(<<"..", "/", "b1">>), S(<<"a..b">>), S(<<"a", "\\", "b">>), S(<<".">>), S(<<>>),
      Undef }

Chmod(p) ==
    /\ p \in DOMAIN disk
    /\ disk' = [disk EXCEPT ![p].readable = ~@]
    /\ request' = Idle
    /\ reply' = NoReply
    /\ fsCalls' = <<>>
    /\ UNCHANGED renderer

Init ==
    /\ disk \in FacadeDisks
    /\ request = Idle
    /\ reply = NoReply
    /\ fsCalls = <<>>
    /\ renderer = InitialRenderer

Next ==
    \/ GetSessions
    \/ \E sessionId \in SessionIdPool, locator \in LocatorPool, source \in SourcePool :
            GetSessionDetails(sessionId, locator, source)
    \/ \E sessionId \in FileHistoryIdPool, backupFileName \in BackupNamePool :
            GetFileHistoryFile(sessionId, backupFileName)
    \/ \E p \in ChmodPaths : Chmod(p)

Spec == Init /\ [][Next]_vars

(***************************************************************************)
(* One session file that its tool keeps appending to                       *)
(***************************************************************************)
MaxLines == 3

ClaudeSessionPath == claudeProjectsPath \o <<ProjDir, SessionFileName("s1")>>
CodexSessionPath == codexSessionsPath \o <<SessionFileName("r1")>>

RootsDisk ==
    DiskOf({ <<<<>>, Dir(<<Sg("home")>>)>>,
             <<homeDir, Dir(<<Sg(".claude"), Sg(".codex")>>)>>,
             <<getClaudeConfigPath, Dir(<<Sg("projects")>>)>>,
             <<claudeProjectsPath, Dir(<<ProjDir>>)>>,
             <<Append(claudeProjectsPath, ProjDir), Dir(<<>>)>>,
             <<getCodexConfigPath, Dir(<<Sg("sessions")>>)>>,
             <<codexSessionsPath, Dir(<<>>)>> })

ClaudeSessionDisk == Create(RootsDisk, ClaudeSessionPath, File(<<>>))
CodexSessionDisk == Create(RootsDisk, CodexSessionPath, File(<<>>))

SessionIsClaude == ClaudeSessionPath \in DOMAIN disk
SessionPath == IF SessionIsClaude THEN ClaudeSessionPath ELSE CodexSessionPath
SessionContent == disk[SessionPath].content
SessionLinePool == IF SessionIsClaude THEN ClaudeLinePool ELSE CodexLinePool

\* The lines written so far, the one being written included.
WrittenLines(content) ==
    SelectSeq(SplitOn(content, Ch("\n")), LAMBDA line : line # <<>>)

LineInProgress(content) == content # <<>> /\ content[Len(content)] # Ch("\n")

Quiet ==
    /\ request' = Idle
    /\ reply' = NoReply
    /\ fsCalls' = <<>>
    /\ UNCHANGED renderer

\* The tool appends a whole line.
AppendLine(line) ==
    /\ ~LineInProgress(SessionContent)
    /\ Len(WrittenLines(SessionContent)) < MaxLines
    /\ disk' = [disk EXCEPT ![SessionPath].content = @ \o line \o <<Ch("\n")>>]
    /\ Quiet

\* The tool has written the first characters of a line.
BeginLine(line) ==
    /\ ~LineInProgress(SessionContent)
    /\ Len(WrittenLines(SessionContent)) < MaxLines
    /\ line[1].k = "json"
    /\ Get(line[1].v, "type") \in {S(<<"user">>), S(<<"message">>)}
    /\ disk' = [disk EXCEPT ![SessionPath].content = Append(@, Cut(line[1].v, 9))]
    /\ Quiet

\* The tool has written the rest of the line.
FinishLine ==
    /\ LineInProgress(SessionContent)
    /\ disk' = [disk EXCEPT ![SessionPath].content =
                    SubSeq(@, 1, Len(@) - 1) \o <<Js(@[Len(@)].v), Ch("\n")>>]
    /\ Quiet

ListSessions == GetSessions

OpenSession ==
    IF SessionIsClaude
    THEN GetSessionDetails(S(<<"s1">>), Str(ProjDir), S(<<"claude">>))
    ELSE GetSessionDetails(S(<<"r1">>), Str(SessionFileName("r1")), S(<<"codex">>))

InitSession ==
    /\ disk \in {ClaudeSessionDisk, CodexSessionDisk}
    /\ request = Idle
    /\ reply = NoReply
    /\ fsCalls = <<>>
    /\ renderer = InitialRenderer

NextSession ==
    \/ \E line \in SessionLinePool : AppendLine(line)
    \/ \E line \in SessionLinePool : BeginLine(line)
    \/ FinishLine
    \/ ListSessions
    \/ OpenSession

SpecSession == InitSession /\ [][NextSession]_vars

(***************************************************************************)
(* The two roots while the tools create session files                      *)
(***************************************************************************)
MaxFiles == 3

RootsDisks ==
    { RootsDisk,
      Prune(RootsDisk, claudeProjectsPath),
      Prune(RootsDisk, codexSessionsPath),
      Prune(Prune(RootsDisk, claudeProjectsPath), codexSessionsPath) }

FileCount == Cardinality({p \in DOMAIN disk : disk[p].kind = "file"})

NewClaudeSession(name, ms) ==
    LET p == claudeProjectsPath \o <<ProjDir, SessionFileName(name)>>
    IN  /\ Append(claudeProjectsPath, ProjDir) \in DOMAIN disk
        /\ p \notin DOMAIN disk
        /\ FileCount < MaxFiles
        /\ disk' = Create(disk, p, File(FileOf(<< <<Js(ClaudeUser("u1", ms, S(<<"hi">>)))>> >>)))
        /\ Quiet

NewCodexSession(name, id, ms) ==
    LET p == Append(codexSessionsPath, SessionFileName(name))
    IN  /\ codexSessionsPath \in DOMAIN disk
        /\ p \notin DOMAIN disk
        /\ FileCount < MaxFiles
        /\ disk' = Create(disk, p, File(FileOf(<< <<Js(CodexMeta(id, ms))>> >>)))
        /\ Quiet

\* First user records that carry no timestamp, and one that no Date parses.
UndatedClaudeUsers ==
    { Obj(<< <<"type", S(<<"user">>)>>,
             <<"message", Obj(<< <<"role", S(<<"user">>)>>, <<"content", S(<<"hi">>)>> >>)>>,
             <<"uuid", S(<<"u1">>)>> >>),
      Obj(<< <<"type", S(<<"user">>)>>,
             <<"message", Obj(<< <<"role", S(<<"user">>)>>, <<"content", S(<<"hi">>)>> >>)>>,
             <<"uuid", S(<<"u1">>)>>,
             <<"timestamp", S(<<"nope">>)>> >>) }

\* Session headers without a timestamp, and one that no Date parses.
UndatedCodexHeaders ==
    { Obj(<< <<"type", S(<<"session_meta">>)>>,
             <<"payload", Obj(<< <<"id", S(<<"c">>)>> >>)>> >>),
      Obj(<< <<"type", S(<<"session_meta">>)>>,
             <<"payload", Obj(<< <<"id", S(<<"c">>)>>,
                                 <<"timestamp", S(<<"nope">>)>> >>)>> >>) }

NewUndatedClaudeSession(name, record) ==
    LET p == claudeProjectsPath \o <<ProjDir, SessionFileName(name)>>
    IN  /\ Append(claudeProjectsPath, ProjDir) \in DOMAIN disk
        /\ p \notin DOMAIN disk
        /\ FileCount < MaxFiles
        /\ disk' = Create(disk, p, File(FileOf(<< <<Js(record)>> >>)))
        /\ Quiet

NewUndatedCodexSession(name, header) ==
    LET p == Append(codexSessionsPath, SessionFileName(name))
    IN  /\ codexSessionsPath \in DOMAIN disk
        /\ p \notin DOMAIN disk
        /\ FileCount < MaxFiles
        /\ disk' = Create(disk, p, File(FileOf(<< <<Js(header)>> >>)))
        /\ Quiet

\* Session files of Family A by their records: without a user record, with
\* user records that have no payload or an empty one, with a first user
\* record whose content holds a null block, and with a user record that
\* stands after other records.
ClaudeFilePool ==
    { << ClaudeAssistant("u2", Arr(<<TextBlock("text", "ok")>>)) >>,
      << ClaudeSnapshot("u3") >>,
      << ClaudeUserNoPayload, ClaudeAssistant("u2", Arr(<<TextBlock("text", "ok")>>)) >>,
      << ClaudeUserEmptyPayload >>,
      << ClaudeUser("u5", 70, Arr(<<Null>>)), ClaudeUser("u1", 70, S(<<"hi">>)) >>,
      << ClaudeUser("u1", 70, S(<<"hi">>)), ClaudeUser("u5", 70, Arr(<<Null>>)) >>,
      << ClaudeSnapshot("u3"), ClaudeUserEmptyPayload, ClaudeUser("u1", 70, S(<<"hi">>)) >> }

NewClaudeFile(name, records) ==
    LET p == claudeProjectsPath \o <<ProjDir, SessionFileName(name)>>
    IN  /\ Append(claudeProjectsPath, ProjDir) \in DOMAIN disk
        /\ p \notin DOMAIN disk
        /\ FileCount < MaxFiles
        /\ disk' = Create(disk, p,
                        File(FileOf([i \in 1..Len(records) |-> <<Js(records[i])>>])))
        /\ Quiet

ListDirectory == GetSessions

InitDirectory ==
    /\ disk \in RootsDisks
    /\ request = Idle
    /\ reply = NoReply
    /\ fsCalls = <<>>
    /\ renderer = InitialRenderer

NextDirectory ==
    \/ \E name \in {"a", "b"}, ms \in {50, 100} : NewClaudeSession(name, ms)
    \/ \E name \in {"f1", "f2"}, id \in {"a", "b"}, ms \in {50, 100} :
            NewCodexSession(name, id, ms)
    \/ \E record \in UndatedClaudeUsers : NewUndatedClaudeSession("c", record)
    \/ \E header \in UndatedCodexHeaders : NewUndatedCodexSession("f3", header)
    \/ \E records \in ClaudeFilePool : NewClaudeFile("d", records)
    \/ ListDirectory

SpecDirectory == InitDirectory /\ [][NextDirectory]_vars

(***************************************************************************)
(* One session file, by the records that its tool writes                   *)
(***************************************************************************)
MaxRecords == 4

\* A later version of the snapshot of a message.
ClaudeSnapshotUpdate(messageId) ==
    Obj(<< <<"type", S(<<"file-history-snapshot">>)>>,
           <<"messageId", S(<<messageId>>)>>,
           <<"snapshot", Obj(<< <<"timestamp", IsoDate(400)>>,
                                <<"trackedFileBackups",
                                  Obj(<< <<"f1", S(<<"b1">>)>> >>)>> >>)>>,
           <<"isSnapshotUpdate", Bool(TRUE)>> >>)

\* The first text that Codex records for the user: the environment.
CodexEnvironmentContext ==
    CodexMessage("user",
        Arr(<< Obj(<< <<"type", S(<<"input_text">>)>>,
                      <<"text", S(<<"<environment_context>", "<cwd>", "/", "a", "</cwd>",
                                    "</environment_context>">>)>> >>) >>))

\* The content of an assistant message that calls two tools.
ClaudeToolCalls ==
    Arr(<< ToolUseBlock(S(<<"Bash">>), LsCommand, S(<<"t1">>)),
           ToolUseBlock(S(<<"Bash">>), PatchArguments, S(<<"t2">>)) >>)

ClaudeRecordPool ==
    { <<Js(ClaudeUser("u1", 100, S(<<"hi">>)))>>,
      <<Js(ClaudeAssistant("u2", S(<<"ok">>)))>>,
      <<Js(ClaudeAssistant("u3", ClaudeToolCalls))>>,
      <<Js(ClaudeSnapshot("u3"))>>,
      <<Js(ClaudeSnapshotUpdate("u3"))>>,
      <<Js(ClaudeSnapshot("u1"))>> }

CodexRecordPool ==
    { <<Js(CodexMeta("s1", 100))>>,
      <<Js(CodexEnvironmentContext)>>,
      <<Js(CodexMessage("user", Arr(<<TextBlock("input_text", "hi")>>)))>>,
      <<Js(CodexMessage("assistant", Arr(<<TextBlock("output_text", "ok")>>)))>>,
      <<Js(CodexFunctionCall(S(<<"shell">>), Str(<<Js(LsCommand)>>), S(<<"c1">>)))>>,
      <<Js(CodexFunctionCall(S(<<"shell">>), PatchArguments, S(<<"c2">>)))>> }

SessionRecordPool == IF SessionIsClaude THEN ClaudeRecordPool ELSE CodexRecordPool

\* The tool appends a record to the session file.
WriteRecord(line) ==
    /\ Len(WrittenLines(SessionContent)) < MaxRecords
    /\ disk' = [disk EXCEPT ![SessionPath].content = @ \o line \o <<Ch("\n")>>]
    /\ Quiet

InitRecords ==
    /\ disk \in {ClaudeSessionDisk, CodexSessionDisk}
    /\ request = Idle
    /\ reply = NoReply
    /\ fsCalls = <<>>
    /\ renderer = InitialRenderer

NextRecords ==
    \/ \E line \in SessionRecordPool : WriteRecord(line)
    \/ ListSessions
    \/ OpenSession

SpecRecords == InitRecords /\ [][NextRecords]_vars

(***************************************************************************)
(* A Family B session file that grows while it is opened again and again   *)
(***************************************************************************)
MaxGrowth == 5

GrowthLinePool ==
    { <<Js(CodexMessage("user", Arr(<<TextBlock("input_text", "hi")>>)))>>,
      <<Js(CodexMessage("assistant", Arr(<<TextBlock("output_text", "ok")>>)))>>,
      <<Js(CodexMessage("assistant", S(<<" ">>)))>>,
      <<Js(CodexFunctionCall(S(<<"shell">>), Str(<<Js(LsCommand)>>), S(<<"c1">>)))>> }

\* The tool appends a whole line.
AppendGrowthLine(line) ==
    /\ ~LineInProgress(SessionContent)
    /\ Len(WrittenLines(SessionContent)) < MaxGrowth
    /\ disk' = [disk EXCEPT ![SessionPath].content = @ \o line \o <<Ch("\n")>>]
    /\ Quiet

\* The tool has written the first characters of a message line.
BeginGrowthLine(line) ==
    /\ ~LineInProgress(SessionContent)
    /\ Len(WrittenLines(SessionContent)) < MaxGrowth
    /\ Get(line[1].v, "type") = S(<<"message">>)
    /\ disk' = [disk EXCEPT ![SessionPath].content = Append(@, Cut(line[1].v, 9))]
    /\ Quiet

InitGrowth ==
    /\ disk = CodexSessionDisk
    /\ request = Idle
    /\ reply = NoReply
    /\ fsCalls = <<>>
    /\ renderer = InitialRenderer

NextGrowth ==
    \/ \E line \in GrowthLinePool : AppendGrowthLine(line)
    \/ \E line \in GrowthLinePool : BeginGrowthLine(line)
    \/ FinishLine
    \/ OpenSession

SpecGrowth == InitGrowth /\ [][NextGrowth]_vars

(***************************************************************************)
(* The renderer: the window that lists the sessions, opens the one that    *)
(* is clicked and polls both every 15 seconds.  A step is one task of the  *)
(* event loop with the microtasks it leaves behind: the code up to the     *)
(* next await on an IPC call.  The calls of a channel are answered in the  *)
(* order in which they were sent.                                          *)
(***************************************************************************)
MaxSessionsCalls == 2
MaxClicks == 2

\* loadSessionDetails up to its await: the selection is recorded, then the
\* guard, the flag, the loading notice unless silent, and the call.
loadSessionDetailsGuardInTry(r, sessionId, locator, source, silent) ==
    LET selected == [r EXCEPT !.currentSessionId = sessionId,
                              !.currentSessionSource = OrElse(source, S(<<"claude">>)),
                              !.currentSessionLocator = locator]
    IN  IF r.isLoadingSessionDetails
        THEN [selected EXCEPT !.isLoadingSessionDetails = FALSE]
        ELSE [selected EXCEPT
                !.isLoadingSessionDetails = TRUE,
                !.chatContainer = IF silent THEN @ ELSE [kind |-> "loading"],
                !.detailsCalls = Append(@, [sessionId |-> sessionId,
                                            locator |-> locator,
                                            source |-> selected.currentSessionSource])]

loadSessionDetails(r, sessionId, locator, source, silent) ==
    LET selected == [r EXCEPT !.currentSessionId = sessionId,
                              !.currentSessionSource = OrElse(source, S(<<"claude">>)),
                              !.currentSessionLocator = locator]
    IN  IF r.isLoadingSessionDetails THEN selected
        ELSE [selected EXCEPT
                !.isLoadingSessionDetails = TRUE,
                !.chatContainer = IF silent THEN @ ELSE [kind |-> "loading"],
                !.detailsCalls = Append(@, [sessionId |-> sessionId,
                                            locator |-> locator,
                                            source |-> selected.currentSessionSource])]

\* loadSessionDetails after its await: the oldest call got its result.
loadSessionDetailsResume(r, result) ==
    LET call == Head(r.detailsCalls)
    IN  [r EXCEPT
            !.chatContainer =
                [kind |-> IF result.kind = "error" THEN "error" ELSE "conversation",
                 sessionId |-> call.sessionId,
                 source |-> call.source],
            !.isLoadingSessionDetails = FALSE,
            !.detailsCalls = Tail(@)]

\* loadSessions up to its await, called by caller.  The guard stands inside
\* the try whose finally clears the flag.
loadSessions(r, caller) ==
    IF r.isLoadingSessions THEN [r EXCEPT !.isLoadingSessions = FALSE]
    ELSE [r EXCEPT !.isLoadingSessions = TRUE,
                   !.sessionsCalls = Append(@, caller)]

\* The .session-item elements that the list is rendered to.
SessionItems(sessions) ==
    [i \in 1..Len(sessions) |->
        [sessionId |-> sessions[i].id,
         locator |-> OrElse(sessions[i].locator, Str(<<>>)),
         source |-> OrElse(sessions[i].source, S(<<"claude">>))]]

\* loadSessions after its await.
loadSessionsResume(r, result) ==
    IF result.kind = "error"
    THEN [r EXCEPT !.sessionList = <<>>,
                   !.isLoadingSessions = FALSE,
                   !.sessionsCalls = Tail(@)]
    ELSE [r EXCEPT !.currentSessions = result.sessions,
                   !.sessionList = SessionItems(result.sessions),
                   !.isLoadingSessions = FALSE,
                   !.sessionsCalls = Tail(@)]

\* The interval callback that leaves the selected session alone.
refreshNothing(r) == r

\* The interval callback after await loadSessions().
refreshSelected(r) ==
    IF /\ Truthy(r.currentSessionId)
       /\ Truthy(r.currentSessionLocator)
       /\ Truthy(r.currentSessionSource)
    THEN loadSessionDetails(r, r.currentSessionId, r.currentSessionLocator,
                            r.currentSessionSource, TRUE)
    ELSE r

\* One session that opens to an error, two that open to a conversation.
RendererDisk ==
    Create(
    Create(
    Create(RootsDisk,
        claudeProjectsPath \o <<ProjDir, SessionFileName("s1")>>, File(ClaudeS1)),
        claudeProjectsPath \o <<ProjDir, SessionFileName("s2")>>, File(ClaudeS2)),
        codexSessionsPath \o <<SessionFileName("r1")>>, File(CodexR1))

MainUnchanged == UNCHANGED <<disk, request, reply, fsCalls>>

\* window 'DOMContentLoaded': the first loadSessions() and setInterval.
DOMContentLoaded ==
    /\ ~renderer.loaded
    /\ renderer' = loadSessions([renderer EXCEPT !.loaded = TRUE], "DOMContentLoaded")
    /\ MainUnchanged

\* The interval fires: loadSessions(), and when that returns at its guard
\* the callback goes on to the selected session in the same task.
PollTick ==
    /\ renderer.loaded
    /\ renderer.isLoadingSessions \/ Len(renderer.sessionsCalls) < MaxSessionsCalls
    /\ renderer' = IF renderer.isLoadingSessions
                   THEN refreshSelected(loadSessions(renderer, "setInterval"))
                   ELSE loadSessions(renderer, "setInterval")
    /\ MainUnchanged

\* The user clicks a session item.
ClickSession(item) ==
    /\ renderer.clicks < MaxClicks
    /\ renderer' = loadSessionDetails(
                        [renderer EXCEPT !.currentSessionLocator = item.locator,
                                         !.clicks = @ + 1],
                        item.sessionId, item.locator, item.source, FALSE)
    /\ MainUnchanged

\* The main process answers the oldest get-sessions call and the caller
\* resumes; the interval callback then goes on to the selected session.
ResumeLoadSessions ==
    /\ renderer.sessionsCalls # <<>>
    /\ \E outcome \in {getSessionsBody(disk)} :
        /\ request' = [op |-> "get-sessions"]
        /\ reply' = TryCatch(outcome)
        /\ fsCalls' = outcome.calls
        /\ renderer' = IF Head(renderer.sessionsCalls) = "setInterval"
                       THEN refreshSelected(loadSessionsResume(renderer, TryCatch(outcome)))
                       ELSE loadSessionsResume(renderer, TryCatch(outcome))
    /\ UNCHANGED disk

\* The main process answers the oldest get-session-details call and
\* loadSessionDetails resumes.
ResumeLoadSessionDetails ==
    /\ renderer.detailsCalls # <<>>
    /\ \E call \in {Head(renderer.detailsCalls)} :
       \E outcome \in {getSessionDetailsBody(disk, call.sessionId, call.locator, call.source)} :
        /\ request' = [op |-> "get-session-details", sessionId |-> call.sessionId,
                       locator |-> call.locator, source |-> call.source]
        /\ reply' = TryCatch(outcome)
        /\ fsCalls' = outcome.calls
        /\ renderer' = loadSessionDetailsResume(renderer, TryCatch(outcome))
    /\ UNCHANGED disk

InitRenderer ==
    /\ disk = RendererDisk
    /\ request = Idle
    /\ reply = NoReply
    /\ fsCalls = <<>>
    /\ renderer = InitialRenderer

NextRenderer ==
    \/ DOMContentLoaded
    \/ PollTick
    \/ \E i \in 1..Len(renderer.sessionList) : ClickSession(renderer.sessionList[i])
    \/ ResumeLoadSessions
    \/ ResumeLoadSessionDetails

SpecRenderer == InitRenderer /\ [][NextRenderer]_vars

\* Every IPC call is answered in the end and the interval keeps firing.
\* Answering is enabled exactly while a call of the channel is pending, and
\* weak fairness of the two answering steps is written with that condition.
FairSpecRenderer ==
    /\ SpecRenderer
    /\ WF_vars(PollTick)
    /\ \/ []<>(renderer.sessionsCalls = <<>>)
       \/ []<><<ResumeLoadSessions>>_vars
    /\ \/ []<>(renderer.detailsCalls = <<>>)
       \/ []<><<ResumeLoadSessionDetails>>_vars

(***************************************************************************)
(* Tool calls as the two tools record them                                 *)
(***************************************************************************)
\* command below n objects, each under the key "args"
RECURSIVE Nested(_)
Nested(n) == IF n = 0 THEN LsCommand ELSE Obj(<< <<"args", Nested(n - 1)>> >>)

ToolInputPool ==
    { LsCommand,
      PatchArguments,
      Str(<<Js(PatchArguments)>>),
      Obj(<< <<"query", S(<<"old">>)>>, <<"script", S(<<"ls">>)>> >>),
      Obj(<< <<"cmd", S(<<" ">>)>>, <<"command", S(<<"ls">>)>> >>),
      Obj(<< <<"cwd", S(<<"/", "proj">>)>> >>),
      Obj(<< <<"cmd", Str(<<Blob(CommandMax + 1)>>)>>, <<"cwd", S(<<"/", "proj">>)>> >>),
      Str(<<Blob(CommandMax + 1)>>),
      Nested(MaxDepth),
      Nested(MaxDepth + 1),
      Obj(<< <<"command", S(<<" ", "ls", " ">>)>> >>),
      Obj(<< <<"command", S(<<" ">>)>> >>),
      Obj(<< <<"cmd", S(<<"ls -la">>)>>, <<"cwd", S(<<"/", "proj">>)>> >>),
      Obj(<< <<"cwd", S(<<"/", "proj">>)>>, <<"command", S(<<"ls -la">>)>> >>),
      Obj(<< <<"args", Arr(<<S(<<"ls">>), S(<<"-la">>)>>)>> >>),
      Obj(<<>>),
      Arr(<<S(<<"ls">>)>>),
      Str(<<Js(LsCommand)>>),
      Str(<<Ch(" "), Js(LsCommand), Ch("\n")>>),
      S(<<"ls -la">>),
      S(<<"ls">>),
      S(<<" ">>),
      Str(<<Js(Num(7))>>),
      Str(<<Js(Arr(<<>>))>>),
      Num(7),
      Undef }

ClaudeBlockPool ==
    { ToolUseBlock(name, input, id) :
        name \in {S(<<"Bash">>), Undef}, input \in ToolInputPool, id \in {S(<<"t1">>), Undef} }

CodexCallPool ==
    { Obj(<< <<"type", S(<<"function_call">>)>>, <<"name", S(<<"shell">>)>>,
             <<"arguments", arguments>>, <<"command", command>>, <<"call_id", callId>> >>) :
        arguments \in ToolInputPool, command \in {S(<<"ls -la">>), Undef},
        callId \in {S(<<"c1">>), Undef} }

ToolUsesReply(toolUses) == [kind |-> "toolUses", toolUses |-> toolUses]

\* get-session-details maps the tool_use blocks of an assistant message.
NormalizeClaudeBlock ==
    /\ request.op = "claude-block"
    /\ reply = NoReply
    /\ reply' = ToolUsesReply(claudeToolUses(Obj(<< <<"content", Arr(<<request.block>>)>> >>)))
    /\ UNCHANGED <<disk, request, fsCalls, renderer>>

\* get-session-details attaches a function_call record.
NormalizeCodexCall ==
    /\ request.op = "codex-call"
    /\ reply = NoReply
    /\ reply' = ToolUsesReply(Arr(<<codexToolUse(request.rec)>>))
    /\ UNCHANGED <<disk, request, fsCalls, renderer>>

InitTool ==
    /\ disk = RootsDisk
    /\ request \in {[op |-> "claude-block", block |-> b] : b \in ClaudeBlockPool}
                    \cup {[op |-> "codex-call", rec |-> r] : r \in CodexCallPool}
    /\ reply = NoReply
    /\ fsCalls = <<>>
    /\ renderer = InitialRenderer

NextTool == NormalizeClaudeBlock \/ NormalizeCodexCall

SpecTool == InitTool /\ [][NextTool]_vars

(***************************************************************************)
(* Path validation of the two read handlers                                *)
(***************************************************************************)
IsDetailsCall == request.op = "get-session-details"
IsFileHistoryCall == request.op = "get-file-history-file"

HasTraversalSegment(text) ==
    \E i \in 1..Len(SplitOn(text, Sep)) : SplitOn(text, Sep)[i] = Sg("..")

\* The base directory of the requested family and the path the request names.
DetailsBase ==
    IF request.source = S(<<"codex">>) THEN codexSessionsPath ELSE claudeProjectsPath

DetailsPath ==
    IF request.source = S(<<"codex">>)
    THEN pathResolve(codexSessionsPath, <<request.locator.s>>)
    ELSE pathJoin(claudeProjectsPath,
                  <<request.locator.s, ToText(request.sessionId) \o <<Ch(".jsonl")>>>>)

DetailsPathIsBad ==
    \/ HasTraversalSegment(request.locator.s)
    \/ request.source # S(<<"codex">>) /\ HasTraversalSegment(ToText(request.sessionId))
    \/ ~StartsWithBase(DetailsPath, DetailsBase)

\* C1: for both families, a getSessionDetail request whose derived path has a
\* traversal segment or resolves outside the family's base directory is
\* answered with an error and without any filesystem call.
C1_DetailsPathValidatedBeforeFs ==
    (IsDetailsCall /\ IsStr(request.locator) /\ DetailsPathIsBad)
        => (reply.kind = "error" /\ fsCalls = <<>>)

SnapshotBase == pathJoin(getClaudeConfigPath, <<Sg("file-history")>>)

NotAPlainName(v) ==
    \/ ~IsStr(v)
    \/ Includes(v.s, "/")
    \/ Includes(v.s, "\\")
    \/ IncludesDotDot(v.s)

\* C2: getSnapshotFile answers a session id or backup file name that holds
\* "/", "\" or ".." with the validation error and makes no filesystem call;
\* a request that resolves to the snapshot base or outside it is an error
\* without a filesystem call too; and every filesystem call it ever makes is
\* on a path below the snapshot base.
C2_SnapshotRequestValidatedBeforeFs ==
    IsFileHistoryCall =>
        /\ (NotAPlainName(request.sessionId) \/ NotAPlainName(request.backupFileName))
                => (reply = ErrorReply("Invalid file-history request") /\ fsCalls = <<>>)
        /\ (/\ ~NotAPlainName(request.sessionId)
            /\ ~NotAPlainName(request.backupFileName)
            /\ ~StartsWithBase(pathResolve(SnapshotBase, <<request.sessionId.s,
                                                           request.backupFileName.s>>),
                               SnapshotBase))
                => (reply.kind = "error" /\ fsCalls = <<>>)
        /\ \A i \in 1..Len(fsCalls) : StartsWithBase(fsCalls[i].path, SnapshotBase)

\* A backup file name with a traversal segment was refused before any
\* filesystem call.
C2_TraversalNameRefused ==
    /\ IsFileHistoryCall
    /\ request.sessionId = S(<<"s1">>)
    /\ request.backupFileName = S(<<"..", "/", "b1">>)
    /\ reply = ErrorReply("Invalid file-history request")
    /\ fsCalls = <<>>

\* C3: none of the three operations rejects: the reply is a result or an
\* {error: string} value, also when the handler body threw.
C3_HandlersNeverReject ==
    /\ reply.kind \in {"none", "sessions", "messages", "content", "error"}
    /\ reply.kind = "error" => IsStr(reply.error)

\* The body of get-session-details threw after its filesystem calls and the
\* renderer received an error value.
C3_ThrowBecameErrorValue ==
    /\ IsDetailsCall
    /\ getSessionDetailsBody(disk, request.sessionId, request.locator,
                             request.source).kind = "throw"
    /\ fsCalls # <<>>
    /\ reply.kind = "error"
    /\ IsStr(reply.error)

(***************************************************************************)
(* The list count and the detail messages of one session file              *)
(***************************************************************************)
\* What the list says about the file, and what opening that entry returns.
ListedOn(d) == getSessions(d)
IsListedOn(d) == ListedOn(d).kind = "sessions"
EntryOn(d) == ListedOn(d).sessions[1]
DetailOn(d) == getSessionDetails(d, EntryOn(d).id, EntryOn(d).locator, EntryOn(d).source)

OpenedOn(d) ==
    IF SessionIsClaude
    THEN getSessionDetails(d, S(<<"s1">>), Str(ProjDir), S(<<"claude">>))
    ELSE getSessionDetails(d, S(<<"r1">>), Str(SessionFileName("r1")), S(<<"codex">>))

\* A line that decodes to a record tagged as a user or assistant message.
IsTaggedLine(line) ==
    LET v == safeJsonParse(line)
    IN  IF SessionIsClaude
        THEN Get(v, "type") \in {S(<<"user">>), S(<<"assistant">>)}
        ELSE /\ Get(unwrapCodexRecord(v).rec, "type") = S(<<"message">>)
             /\ Get(unwrapCodexRecord(v).rec, "role") \in {S(<<"user">>), S(<<"assistant">>)}

TaggedCount == Len(SelectSeq(WrittenLines(SessionContent), IsTaggedLine))

IsOpenedReply == IsDetailsCall /\ reply.kind = "messages"

IsUndecodable(line) == Trim(line) # <<>> /\ ~JsonParses(line)

\* The file without its i-th line.
WithoutLine(d, i) ==
    LET lines == SplitOn(d[SessionPath].content, Ch("\n"))
        kept == [j \in 1..(Len(lines) - 1) |-> IF j < i THEN lines[j] ELSE lines[j + 1]]
    IN  [d EXCEPT ![SessionPath].content = Join(kept, <<Ch("\n")>>)]

UndecodableLines ==
    {i \in 1..Len(SplitOn(SessionContent, Ch("\n"))) :
        IsUndecodable(SplitOn(SessionContent, Ch("\n"))[i])}

HasText(m) == IsStr(m.content) /\ Trim(m.content.s) # <<>>
HasToolUses(m) == m.toolUses.t = "array" /\ Len(m.toolUses.a) > 0
HasSnapshots(m) == m.fileHistorySnapshots.t = "array" /\ Len(m.fileHistorySnapshots.a) > 0

SurvivesCodexFilter(m) == HasText(m) \/ HasToolUses(m)

CodexEntries ==
    SelectSeq(codexFormattedMessages(Decode(SessionLines(SessionContent))),
              SurvivesCodexFilter)

C9_NoEmptyMessageReturned ==
    IsOpenedReply =>
        \A i \in 1..Len(reply.messages) :
            \/ HasText(reply.messages[i])
            \/ HasToolUses(reply.messages[i])
            \/ request.source # S(<<"codex">>) /\ HasSnapshots(reply.messages[i])

\* A Family A message without text and tool uses came back for its snapshot.
C9_KeptForSnapshotAlone ==
    /\ IsOpenedReply
    /\ request.source = S(<<"claude">>)
    /\ \E i \in 1..Len(reply.messages) :
            /\ ~HasText(reply.messages[i])
            /\ ~HasToolUses(reply.messages[i])
            /\ HasSnapshots(reply.messages[i])

(***************************************************************************)
(* The merged list                                                         *)
(***************************************************************************)
IsListCall == request.op = "get-sessions"
ClaudeRootExists == claudeProjectsPath \in DOMAIN disk
CodexRootExists == codexSessionsPath \in DOMAIN disk

Range(seq) == {seq[i] : i \in 1..Len(seq)}

\* text holds sub as a substring
ContainsText(text, sub) ==
    \E i \in 0..(Len(text) - Len(sub)) : SubSeq(text, i + 1, i + Len(sub)) = sub

NamesBothLocations(r) ==
    /\ r.kind = "error"
    /\ ContainsText(r.error.s, PathText(claudeHistoryPath))
    /\ ContainsText(r.error.s, PathText(codexSessionsPath))

FoundSessions == Range(claudeScan(disk).sessions) \cup Range(codexScan(disk).sessions)

\* C6 (as stated): listSessions returns an error naming both locations when
\* both roots are absent, and whenever at least one root exists it returns
\* {sessions} with the sessions of the available source.
C6_ErrorOnlyWhenBothRootsAbsent ==
    IsListCall =>
        /\ (~ClaudeRootExists /\ ~CodexRootExists) => NamesBothLocations(reply)
        /\ (ClaudeRootExists \/ CodexRootExists) =>
                (reply.kind = "sessions" /\ Range(reply.sessions) = FoundSessions)

\* C6 (amended): listSessions returns the error naming both locations
\* exactly when no session is found in either source, which is the case
\* when both roots are absent; a missing root alone is not an error:
\* whenever a source yields a session the result is {sessions}, holding
\* exactly the sessions found (none from a missing root).
C6_ErrorExactlyWhenNoSessionFound ==
    IsListCall =>
        /\ (~ClaudeRootExists /\ ~CodexRootExists) => FoundSessions = {}
        /\ FoundSessions = {} => NamesBothLocations(reply)
        /\ FoundSessions # {} =>
                /\ reply.kind = "sessions"
                /\ Range(reply.sessions) = FoundSessions
                /\ ~ClaudeRootExists =>
                        \A i \in 1..Len(reply.sessions) :
                            reply.sessions[i].source = S(<<"codex">>)
                /\ ~CodexRootExists =>
                        \A i \in 1..Len(reply.sessions) :
                            reply.sessions[i].source = S(<<"claude">>)

\* With the Family A root absent, the list came back with the Family B
\* sessions.
C6_ListedWithOneRootMissing ==
    /\ IsListCall
    /\ ~ClaudeRootExists
    /\ CodexRootExists
    /\ reply.kind = "sessions"
    /\ Len(reply.sessions) >= 1

\* Every order in which the entries of seq can be enumerated.
Orders(seq) ==
    {[i \in 1..Len(seq) |-> seq[f[i]]] :
        f \in {g \in [1..Len(seq) -> 1..Len(seq)] :
                    \A i, j \in 1..Len(seq) : g[i] = g[j] => i = j}}

\* C7: the returned sessions are in descending timestamp order, entries
\* with equal timestamps are in ascending id order, and the order depends
\* on the summaries only, not on the order in which a source's directory
\* listing produced them.
C7_SortedAndOrderDeterministic ==
    (IsListCall /\ reply.kind = "sessions") =>
        /\ \A i, j \in 1..Len(reply.sessions) :
                i < j => /\ TimestampOrZero(reply.sessions[i])
                                >= TimestampOrZero(reply.sessions[j])
                         /\ TimestampOrZero(reply.sessions[i])
                                = TimestampOrZero(reply.sessions[j])
                            => localeCompare(ToText(reply.sessions[i].id),
                                             ToText(reply.sessions[j].id)) <= 0
        /\ \A c \in Orders(claudeScan(disk).sessions), x \in Orders(codexScan(disk).sessions) :
                sortSessions(c \o x) = reply.sessions

(***************************************************************************)
(* Normalised tool uses                                                    *)
(***************************************************************************)
IsNormalizedClaudeBlock == request.op = "claude-block" /\ reply.kind = "toolUses"

\* {"command": c} with c a non-empty string
IsCommandOnly(input) ==
    /\ input.t = "object"
    /\ Len(input.kv) = 1
    /\ input.kv[1][1] = "command"
    /\ IsStr(input.kv[1][2])
    /\ input.kv[1][2].s # <<>>

BlockInput == Get(request.block, "input")

\* C10 (as stated): a Family A tool-use block with input {"command": c}
\* normalises to command c and the empty payload.
C10_CommandOnlyHasEmptyPayload ==
    (IsNormalizedClaudeBlock /\ IsCommandOnly(BlockInput)) =>
        /\ reply.toolUses.a[1].command = Get(BlockInput, "command")
        /\ reply.toolUses.a[1].payload = Str(<<>>)

\* C10 (amended): a Family A tool-use block with input {"command": c}
\* normalises to command c without its surrounding white space, and to the
\* payload that is the JSON text of the input object, indented by two
\* spaces: never the empty payload.
C10_CommandOnlyHasJsonPayload ==
    (IsNormalizedClaudeBlock /\ IsCommandOnly(BlockInput)) =>
        /\ reply.toolUses.a[1].command = Str(Trim(Get(BlockInput, "command").s))
        /\ reply.toolUses.a[1].payload = Str(<<JsPretty(BlockInput)>>)
        /\ reply.toolUses.a[1].payload # Str(<<>>)

\* The block with input {"command": "ls -la"} was normalised.
C10_LsBlockNormalized ==
    /\ IsNormalizedClaudeBlock
    /\ BlockInput = LsCommand
    /\ reply.toolUses.a[1].command = S(<<"ls -la">>)
    /\ reply.toolUses.a[1].payload = Str(<<JsPretty(LsCommand)>>)

(***************************************************************************)
(* The command of a normalised tool use                                    *)
(***************************************************************************)
IsNormalized == reply.kind = "toolUses"

\* The payload source that the caller hands to normalizeToolUse.
RequestPayloadSource ==
    IF request.op = "claude-block" THEN Get(request.block, "input")
    ELSE Get(request.rec, "arguments")

\* The object that a payload is, or that it is the JSON text of.
StructuredObject(p) ==
    IF p.t = "object" THEN p
    ELSE IF IsStr(p) /\ JsonParses(p.s) /\ JsonParse(p.s).t = "object" THEN JsonParse(p.s)
    ELSE Null

PriorityKeys == <<"cmd", "command", "shell_command", "commandLine", "script", "patch", "query">>

NonEmptyPriorityKeys(o) ==
    SelectSeq(PriorityKeys, LAMBDA k : IsStr(Get(o, k)) /\ Get(o, k).s # <<>>)

NonBlankPriorityKeys(o) ==
    SelectSeq(PriorityKeys, LAMBDA k : IsStr(Get(o, k)) /\ Trim(Get(o, k).s) # <<>>)

NormalizedCommand == reply.toolUses.a[1].command

\* C11 (as stated): when the payload object has a priority key with a
\* non-empty string value at its top level, the command is the value of the
\* first such key in priority order.
C11_CommandIsTopLevelPriorityValue ==
    LET o == StructuredObject(RequestPayloadSource)
    IN  (IsNormalized /\ o # Null /\ NonEmptyPriorityKeys(o) # <<>>) =>
            NormalizedCommand = Get(o, NonEmptyPriorityKeys(o)[1])

\* C11 (amended): when the payload object has a priority key whose string
\* value is not blank at its top level, the command is the value of the first
\* such key in priority order without its surrounding white space (its first
\* CommandMax characters when it is longer), whatever the fallback text; the
\* object and its JSON text normalise to the same command.
C11_CommandIsTrimmedPriorityValue ==
    LET o == StructuredObject(RequestPayloadSource)
        v == Trim(Get(o, NonBlankPriorityKeys(o)[1]).s)
    IN  (IsNormalized /\ o # Null /\ NonBlankPriorityKeys(o) # <<>>) =>
            /\ TextLen(v) <= CommandMax => NormalizedCommand = Str(v)
            /\ SliceText(NormalizedCommand.s, CommandMax) = SliceText(v, CommandMax)
            /\ \A form \in {o, Str(<<Js(o)>>)}, fallback \in {Str(<<>>), S(<<"ls -la">>)} :
                    normalizeToolUse(Undef, form, fallback, Null).command = NormalizedCommand

\* A Codex function call whose arguments are the JSON text {"patch": "diff"}
\* and whose fallback text is "ls -la" got the command "diff".
C11_PatchArgumentsNormalized ==
    /\ IsNormalized
    /\ request.op = "codex-call"
    /\ Get(request.rec, "arguments") = Str(<<Js(PatchArguments)>>)
    /\ Get(request.rec, "command") = S(<<"ls -la">>)
    /\ NormalizedCommand = S(<<"diff">>)

\* C12 (as stated): the command of a normalised tool use has at most
\* CommandMax characters, the truncation marker included.
C12_CommandAtMostCommandMax ==
    IsNormalized => TextLen(NormalizedCommand.s) <= CommandMax

\* The fallback text that the caller hands to normalizeToolUse.
RequestFallbackText ==
    IF request.op = "claude-block"
    THEN (IF IsStr(Get(request.block, "input")) THEN Get(request.block, "input")
          ELSE Str(<<>>))
    ELSE IF ~Nullish(Get(request.rec, "command")) THEN Get(request.rec, "command")
    ELSE IF IsStr(Get(request.rec, "arguments")) THEN Get(request.rec, "arguments")
    ELSE Str(<<>>)

\* The object or array that a payload is, or that it is the JSON text of.
StructuredPayload(p) ==
    IF p.t \in {"object", "array"} THEN p
    ELSE IF IsStr(p) /\ JsonParses(p.s) /\ JsonParse(p.s).t \in {"object", "array"}
    THEN JsonParse(p.s)
    ELSE Null

\* v holds, in an object at most MaxDepth levels below depth, a priority key
\* whose value is a string that is not blank.
RECURSIVE HasPriorityValue(_, _)
HasPriorityValue(v, depth) ==
    /\ depth <= MaxDepth
    /\ \/ v.t = "object" /\ NonBlankPriorityKeys(v) # <<>>
       \/ v.t = "object" /\ \E i \in 1..Len(v.kv) : HasPriorityValue(v.kv[i][2], depth + 1)
       \/ v.t = "array" /\ \E i \in 1..Len(v.a) : HasPriorityValue(v.a[i], depth + 1)

\* C19 (as stated): when a structured payload holds no priority key with a
\* non-empty string value within depth MaxDepth, the command is not taken
\* from the payload: it is the caller's fallback text, or empty.
C19_CommandOnlyFromPriorityKeys ==
    LET payload == StructuredPayload(RequestPayloadSource)
    IN  (IsNormalized /\ payload # Null /\ ~HasPriorityValue(payload, 0)) =>
            NormalizedCommand = (IF IsStr(RequestFallbackText)
                                 THEN Str(Trim(RequestFallbackText.s)) ELSE Str(<<>>))

(***************************************************************************)
(* The entries of the session list                                         *)
(***************************************************************************)
IsListed == IsListCall /\ reply.kind = "sessions"

\* C13 (as stated): the timestamp of every listed session is a whole number
\* of milliseconds, or 0; it is never NaN or null.
C13_TimestampIsMillisOrZero ==
    IsListed =>
        \A i \in 1..Len(reply.sessions) :
            /\ reply.sessions[i].timestamp.t = "number"
            /\ reply.sessions[i].timestamp.n \in Nat

\* C14 (as stated): no two listed sessions have the same id and the same
\* source.
C14_IdAndSourceIdentifySession ==
    IsListed =>
        \A i, j \in 1..Len(reply.sessions) :
            (/\ reply.sessions[i].id = reply.sessions[j].id
             /\ reply.sessions[i].source = reply.sessions[j].source) => i = j

(***************************************************************************)
(* Session files that cannot be listed                                     *)
(***************************************************************************)
\* The files that the two scans take for session files.
ClaudeSessionFiles(d) ==
    {p \in DOMAIN d : /\ IsPrefix(claudeProjectsPath, p)
                      /\ Len(p) = Len(claudeProjectsPath) + 2
                      /\ IsClaudeSessionFile(p[Len(p)])}

CodexSessionFiles(d) ==
    {p \in DOMAIN d : /\ IsPrefix(codexSessionsPath, p)
                      /\ Len(p) > Len(codexSessionsPath)
                      /\ d[p].kind = "file"
                      /\ EndsWith(p[Len(p)], ".jsonl")}

\* Reading p fails, or formatting the preview of its first user record does.
FailsToList(d, p) ==
    \/ d[p].kind # "file"
    \/ ~d[p].readable
    \/ /\ p \in ClaudeSessionFiles(d)
       /\ LET users == SelectSeq(Decode(SessionLines(d[p].content)), IsFirstUserCandidate)
          IN  users # <<>> /\ HasNullishBlock(Get(Get(users[1], "message"), "content"))

FailingSessionFiles(d) ==
    {p \in ClaudeSessionFiles(d) \cup CodexSessionFiles(d) : FailsToList(d, p)}

RECURSIVE PruneAll(_, _)
PruneAll(d, ps) ==
    IF ps = {} THEN d
    ELSE LET p == CHOOSE q \in ps : TRUE IN PruneAll(Prune(d, p), ps \ {p})

ListedIds == {reply.sessions[i].id : i \in 1..Len(reply.sessions)}

\* C15: a session file that cannot be read or processed is left out and
\* nothing else is: the list is the one of the same filesystem without the
\* failing files, so every other session of both families is listed.
C15_OnlyFailingFilesOmitted ==
    IsListCall => reply = getSessions(PruneAll(disk, FailingSessionFiles(disk)))

\* The first Claude session file was unreadable, a later one could not be
\* processed, and the sessions after them and of the other family were listed.
C15_ListedPastUnreadableFile ==
    /\ IsListed
    /\ ClaudeSessionPath \in DOMAIN disk
    /\ ~disk[ClaudeSessionPath].readable
    /\ claudeProjectsPath \o <<ProjDir, SessionFileName("s3")>> \in FailingSessionFiles(disk)
    /\ ListedIds = {S(<<"s2">>), S(<<"r1">>), S(<<"r2">>)}

(***************************************************************************)
(* Detail expansion of the records of a session file                       *)
(***************************************************************************)
IsOpenedClaude == IsDetailsCall /\ SessionIsClaude
IsOpenedCodex == IsDetailsCall /\ ~SessionIsClaude

\* The records that the lines of the session file decode to.
SessionRecords == Decode(SessionLines(SessionContent))

IsAssistantWithStringContent(rec) ==
    /\ Get(rec, "type") = S(<<"assistant">>)
    /\ IsStr(Get(Get(rec, "message"), "content"))

\* C16 (as stated): a Family A session that holds an assistant record whose
\* content is a plain string opens to a message list, and the record gives a
\* message with that string as content and no tool uses.
C16_StringContentPassesThrough ==
    IsOpenedClaude =>
        \A i \in 1..Len(SessionRecords) :
            IsAssistantWithStringContent(SessionRecords[i]) =>
                /\ reply.kind = "messages"
                /\ \E k \in 1..Len(reply.messages) :
                        /\ reply.messages[k].role = S(<<"assistant">>)
                        /\ reply.messages[k].uuid = Get(SessionRecords[i], "uuid")
                        /\ reply.messages[k].content =
                                Get(Get(SessionRecords[i], "message"), "content")
                        /\ reply.messages[k].toolUses = Arr(<<>>)

\* The records of a Family B file, out of their wrappers.
CodexRecords == [i \in 1..Len(SessionRecords) |-> unwrapCodexRecord(SessionRecords[i]).rec]

IsCallRecord(rec) == Get(rec, "type") = S(<<"function_call">>) /\ IsStr(Get(rec, "name"))

IsAssistantRecord(rec) == IsCodexMessage(rec) /\ Get(rec, "role") = S(<<"assistant">>)

\* The record whose message receives the call at j: the last assistant
\* message record before j, else the first call record of the file (where
\* the placeholder is made).
CallOwner(j) ==
    LET before == {i \in 1..(j - 1) : IsAssistantRecord(CodexRecords[i])}
        calls == {i \in 1..j : IsCallRecord(CodexRecords[i])}
    IN  IF before # {} THEN CHOOSE i \in before : \A m \in before : m <= i
        ELSE CHOOSE i \in calls : \A m \in calls : i <= m

\* The call records whose tool use goes to the message of record i, in file order.
CallsOf(i) ==
    SelectSeq([j \in 1..Len(CodexRecords) |-> j],
              LAMBDA j : IsCallRecord(CodexRecords[j]) /\ CallOwner(j) = i)

\* The records that give an entry of the sequence: the messages and the
\* calls that make the placeholder.
EntryRecords ==
    SelectSeq([i \in 1..Len(CodexRecords) |-> i],
              LAMBDA i : \/ IsCodexMessage(CodexRecords[i])
                         \/ IsCallRecord(CodexRecords[i]) /\ CallOwner(i) = i)

\* Role, content and tool uses of the entry that record i gives.
EntryOf(i) ==
    [role |-> IF IsCallRecord(CodexRecords[i]) THEN S(<<"assistant">>)
              ELSE Get(CodexRecords[i], "role"),
     content |-> IF IsCallRecord(CodexRecords[i]) THEN Str(<<>>)
                 ELSE extractCodexTextFromContentBlocks(Get(CodexRecords[i], "content")),
     toolUses |-> Arr([k \in 1..Len(CallsOf(i)) |-> codexToolUse(CodexRecords[CallsOf(i)[k]])])]

ExpectedEntries == [k \in 1..Len(EntryRecords) |-> EntryOf(EntryRecords[k])]

Shown(m) == [role |-> m.role, content |-> m.content, toolUses |-> m.toolUses]

ShownAll(ms) == [k \in 1..Len(ms) |-> Shown(ms[k])]

HasContentOrToolUse(e) == Trim(e.content.s) # <<>> \/ Len(e.toolUses.a) > 0

\* C17: each function call record gives one tool use, on the message of the
\* last assistant record before it or, when there is none, on an empty
\* assistant placeholder made at the first such call; the returned messages
\* are these entries, less the empty ones and then the first two.
C17_CallsAttachToLastAssistant ==
    (IsOpenedCodex /\ reply.kind = "messages") =>
        /\ ShownAll(codexFormattedMessages(SessionRecords)) = ExpectedEntries
        /\ ShownAll(reply.messages) =
                DropTwo(SelectSeq(ExpectedEntries, HasContentOrToolUse))

\* After two user messages, two function calls with no assistant message
\* before them came back as one placeholder holding both tool uses in order.
C17_PlaceholderHoldsBothCalls ==
    /\ IsOpenedCodex
    /\ reply.kind = "messages"
    /\ Len(CodexRecords) = MaxRecords
    /\ \A i \in 1..Len(CodexRecords) : ~IsAssistantRecord(CodexRecords[i])
    /\ Len(reply.messages) = 1
    /\ reply.messages[1].role = S(<<"assistant">>)
    /\ reply.messages[1].content = Str(<<>>)
    /\ Len(reply.messages[1].toolUses.a) = 2
    /\ reply.messages[1].toolUses.a[1].callId = S(<<"c1">>)
    /\ reply.messages[1].toolUses.a[2].callId = S(<<"c2">>)

\* The snapshot records of the file that name the message uuid, in file order.
SnapshotRecordsOf(uuid) ==
    SelectSeq(SessionRecords,
              LAMBDA rec : /\ Get(rec, "type") = S(<<"file-history-snapshot">>)
                           /\ Truthy(Get(rec, "snapshot"))
                           /\ Truthy(Get(rec, "messageId"))
                           /\ Get(rec, "messageId") = uuid)

SnapshotOf(rec) ==
    [messageId |-> Get(rec, "messageId"),
     timestamp |-> Get(Get(rec, "snapshot"), "timestamp"),
     isSnapshotUpdate |-> Get(rec, "isSnapshotUpdate") = Bool(TRUE),
     trackedFileBackups |-> Get(Get(rec, "snapshot"), "trackedFileBackups")]

\* C18: the snapshots of every returned Family A message are the snapshot
\* records of the file that name its uuid, all of them and in file order,
\* wherever they stand in the file.
C18_SnapshotsJoinedByMessageId ==
    (IsOpenedClaude /\ reply.kind = "messages") =>
        \A k \in 1..Len(reply.messages) :
            reply.messages[k].fileHistorySnapshots.a =
                [n \in 1..Len(SnapshotRecordsOf(reply.messages[k].uuid)) |->
                    SnapshotOf(SnapshotRecordsOf(reply.messages[k].uuid)[n])]

\* A message came back with two versions of its snapshot, one recorded
\* before the message and one after it.
C18_SnapshotsAroundMessage ==
    /\ IsOpenedClaude
    /\ reply.kind = "messages"
    /\ SessionContent = FileOf(<< <<Js(ClaudeSnapshot("u3"))>>,
                                  <<Js(ClaudeAssistant("u3", ClaudeToolCalls))>>,
                                  <<Js(ClaudeSnapshotUpdate("u3"))>> >>)
    /\ Len(reply.messages) = 1
    /\ Len(reply.messages[1].fileHistorySnapshots.a) = 2
    /\ ~reply.messages[1].fileHistorySnapshots.a[1].isSnapshotUpdate
    /\ reply.messages[1].fileHistorySnapshots.a[2].isSnapshotUpdate

(***************************************************************************)
(* The project of a Family B summary                                       *)
(***************************************************************************)
\* The session headers of the file that carry a working directory.
HeadersWithCwd ==
    SelectSeq(SessionRecords,
              LAMBDA rec : /\ Get(rec, "type") = S(<<"session_meta">>)
                           /\ IsStr(Get(Get(rec, "payload"), "cwd")))

\* The user messages of the file, in file order.
UserMessages == SelectSeq(CodexRecords, IsCodexUserWithContent)

FirstUserText == extractCodexTextFromContentBlocks(Get(UserMessages[1], "content"))

\* C20 (as stated): the project of a Family B summary is the working
\* directory of the session header when the file has one, wherever the user
\* messages stand; else the one mined from the environment context of the
\* first user message; else the literal "Codex".
C20_ProjectByStrictPriority ==
    (IsListed /\ ~SessionIsClaude) =>
        reply.sessions[1].project =
            (IF HeadersWithCwd # <<>> THEN Get(Get(HeadersWithCwd[1], "payload"), "cwd")
             ELSE IF UserMessages # <<>> /\ tryExtractCwdFromEnvText(FirstUserText) # Null
             THEN tryExtractCwdFromEnvText(FirstUserText)
             ELSE S(<<"Codex">>))

(***************************************************************************)
(* The payload of a normalised tool use                                    *)
(***************************************************************************)
NormalizedPayload == reply.toolUses.a[1].payload

\* The text that s is without its surrounding white space; empty when s is
\* no string.
TrimmedText(v) == IF IsStr(v) THEN Trim(v.s) ELSE <<>>

PreviewMax == 100

UserText(m) == extractCodexTextFromContentBlocks(Get(m, "content"))

HasContextMarker(text) == \E i \in 1..Len(text) : text[i] = Ch("<environment_context>")

\* The user messages whose text is not blank and holds no marker.
PlainUserMessages ==
    SelectSeq(UserMessages,
              LAMBDA m : Trim(UserText(m).s) # <<>> /\ ~HasContextMarker(UserText(m).s))

ListedPreview == reply.sessions[1].display

\* C21 (as stated): the preview of a Family B summary is the text of the
\* first user message that is not environment context, and never a text that
\* holds the environment-context marker, even when no other user message is
\* in the file.
C21_PreviewNeverEnvironmentContext ==
    (IsListed /\ ~SessionIsClaude) =>
        /\ ~HasContextMarker(ListedPreview.s)
        /\ PlainUserMessages # <<>> =>
                ListedPreview = Str(SliceText(Trim(UserText(PlainUserMessages[1]).s), PreviewMax))

\* C21 (amended): the preview is the text of the first user message that is
\* not blank and holds no environment-context marker, wherever the messages
\* with the marker stand; a file whose user messages have no such text gives
\* the text of its first user message, environment context included, and a
\* file without user messages the empty preview.  The text is taken without
\* its surrounding white space, cut to PreviewMax characters.
C21_PreviewPrefersPlainUserText ==
    LET expected ==
            IF PlainUserMessages # <<>> THEN Trim(UserText(PlainUserMessages[1]).s)
            ELSE IF UserMessages # <<>> THEN Trim(UserText(UserMessages[1]).s)
            ELSE <<>>
    IN  (IsListed /\ ~SessionIsClaude) =>
            /\ ListedPreview = Str(SliceText(expected, PreviewMax))
            /\ HasContextMarker(ListedPreview.s) => PlainUserMessages = <<>>

\* A file whose only user message is the environment context was listed
\* with that text as its preview.
C21_EnvironmentContextShownAlone ==
    /\ IsListed
    /\ ~SessionIsClaude
    /\ Len(UserMessages) = 1
    /\ UserMessages[1] = CodexEnvironmentContext
    /\ Len(SessionRecords) > 1
    /\ HasContextMarker(ListedPreview.s)

(***************************************************************************)
(* The tool uses of the returned messages                                  *)
(***************************************************************************)
\* a is b with some elements left out, the others in the order of b
RECURSIVE IsSubsequence(_, _)
IsSubsequence(a, b) ==
    IF a = <<>> THEN TRUE
    ELSE IF b = <<>> THEN FALSE
    ELSE IF a[1] = b[1] THEN IsSubsequence(Tail(a), Tail(b))
    ELSE IsSubsequence(a, Tail(b))

\* The ids of the tool_use blocks of a Family A record, in block order.
BlockIds(rec) ==
    LET content == Get(Get(rec, "message"), "content")
        blocks == IF content.t = "array"
                  THEN SelectSeq(content.a,
                            LAMBDA block : Get(block, "type") = S(<<"tool_use">>))
                  ELSE <<>>
    IN  [n \in 1..Len(blocks) |-> Get(blocks[n], "id")]

\* The ids of the tool calls of the session file, in file order: the blocks
\* of the assistant records of Family A, the function calls of Family B.
FileCallIds ==
    IF SessionIsClaude
    THEN Join([i \in 1..Len(SessionRecords) |->
                 IF Get(SessionRecords[i], "type") = S(<<"assistant">>)
                 THEN BlockIds(SessionRecords[i]) ELSE <<>>], <<>>)
    ELSE LET calls == SelectSeq(CodexRecords, IsCallRecord)
         IN  [n \in 1..Len(calls) |-> Get(calls[n], "call_id")]

ToolUseCount(m) == IF m.toolUses.t = "array" THEN Len(m.toolUses.a) ELSE 0

ToolUseIds(m) == [n \in 1..ToolUseCount(m) |-> m.toolUses.a[n].callId]

\* C22: in the messages of an opened session of either family, a message
\* with tool uses has the role assistant, a user message has none, and the
\* tool uses of each message stand in the file order of the blocks or
\* records that they come from.
C22_ToolUsesOnAssistantInFileOrder ==
    (IsDetailsCall /\ reply.kind = "messages") =>
        \A k \in 1..Len(reply.messages) :
            /\ ToolUseCount(reply.messages[k]) > 0 =>
                    reply.messages[k].role = S(<<"assistant">>)
            /\ reply.messages[k].role = S(<<"user">>) =>
                    ToolUseCount(reply.messages[k]) = 0
            /\ IsSubsequence(ToolUseIds(reply.messages[k]), FileCallIds)

\* A Family A session came back with a user message and an assistant
\* message that holds the tool uses t1 and t2 in the order of its blocks.
C22_TwoToolUsesInBlockOrder ==
    /\ IsOpenedClaude
    /\ reply.kind = "messages"
    /\ \E k \in 1..Len(reply.messages) : reply.messages[k].role = S(<<"user">>)
    /\ \E k \in 1..Len(reply.messages) :
            /\ reply.messages[k].role = S(<<"assistant">>)
            /\ ToolUseIds(reply.messages[k]) = <<S(<<"t1">>), S(<<"t2">>)>>

(***************************************************************************)
(* Which Family A files the list shows                                     *)
(***************************************************************************)
IsUserRecord(rec) == Get(rec, "type") = S(<<"user">>)

RecordsOf(p) == Decode(SessionLines(disk[p].content))

UsersWithPayload(p) ==
    SelectSeq(RecordsOf(p), LAMBDA rec : IsUserRecord(rec) /\ ~Nullish(Get(rec, "message")))

\* The user records whose payload is truthy.
UsersWithTruthyPayload(p) ==
    SelectSeq(RecordsOf(p), LAMBDA rec : IsUserRecord(rec) /\ Truthy(Get(rec, "message")))

\* The payload has a content list with a null block, whose type cannot be read.
HasUnreadableBlock(rec) ==
    LET content == Get(Get(rec, "message"), "content")
    IN  content.t = "array"
        /\ \E i \in 1..Len(content.a) : content.a[i].t \in {"null", "undefined"}

\* The list has an entry for the Family A session file p.
FileIsListed(p) ==
    /\ reply.kind = "sessions"
    /\ \E k \in 1..Len(reply.sessions) :
            /\ reply.sessions[k].source = S(<<"claude">>)
            /\ reply.sessions[k].id = Str(SubSeq(p[Len(p)], 1, Len(p[Len(p)]) - 1))
            /\ reply.sessions[k].locator = Str(p[Len(p) - 1])

RoleAndContent(r) ==
    IF r.kind = "messages"
    THEN [k \in 1..Len(r.messages) |-> <<r.messages[k].role, r.messages[k].content>>]
    ELSE <<>>

\* What opening the Family B session returns on the filesystem d.
CodexOpenedOn(d) ==
    getSessionDetails(d, S(<<"r1">>), Str(SessionFileName("r1")), S(<<"codex">>))

\* C27: whenever the Family B file grows, by a whole line, by the first
\* characters of a line or by the rest of a line, opening it after the step
\* returns messages, and the (role, content) pairs that opening it before
\* the step returns are among them in the same order.
C27_ReturnedMessagesPersist ==
    [][ \A before \in {CodexOpenedOn(disk)}, after \in {CodexOpenedOn(disk')} :
            /\ after.kind = "messages"
            /\ IsSubsequence(RoleAndContent(before), RoleAndContent(after)) ]_vars

\* The file without its last line.
WithoutLastLine(d) ==
    LET lines == WrittenLines(d[SessionPath].content)
    IN  [d EXCEPT ![SessionPath].content = FileOf(SubSeq(lines, 1, Len(lines) - 1))]

\* The session was opened after a function call was appended that made an
\* empty assistant message surface before the message returned earlier.
C27_SurfacedBeforeReturnedMessage ==
    /\ IsOpenedReply
    /\ ~SessionIsClaude
    /\ ~LineInProgress(SessionContent)
    /\ Len(WrittenLines(SessionContent)) = MaxGrowth
    /\ Len(CodexOpenedOn(WithoutLastLine(disk)).messages) = 1
    /\ Len(reply.messages) = 2
    /\ RoleAndContent(reply)[2] = RoleAndContent(CodexOpenedOn(WithoutLastLine(disk)))[1]
    /\ RoleAndContent(reply)[1] = <<S(<<"assistant">>), S(<<" ">>)>>


(***************************************************************************)
(* The renderer's requests                                                 *)
(***************************************************************************)
SessionsInFlight == Len(renderer.sessionsCalls)
DetailsInFlight == Len(renderer.detailsCalls)

\* C23: at most one get-sessions request is in flight, and
\* isLoadingSessions is true exactly while one is outstanding: a
\* loadSessions call made meanwhile neither sends a request nor clears the
\* flag.
C23_AtMostOneSessionsRequest ==
    /\ SessionsInFlight <= 1
    /\ renderer.isLoadingSessions <=> SessionsInFlight = 1

\* The conversation or error that the chat container shows.
Displayed == renderer.chatContainer
ShowsConversation == Displayed.kind = "conversation"
ShowsResult == Displayed.kind \in {"conversation", "error"}
ShowsSelected ==
    /\ Displayed.sessionId = renderer.currentSessionId
    /\ Displayed.source = renderer.currentSessionSource

\* C24: when no get-session-details request is in flight and a
\* conversation is displayed, it is the conversation of the session that
\* currentSessionId and currentSessionSource name.
C24_DisplayedIsCurrentSession ==
    (DetailsInFlight = 0 /\ ShowsConversation) => ShowsSelected

\* C25: at most one get-session-details request is in flight, and
\* isLoadingSessionDetails is true exactly while one is outstanding: a
\* loadSessionDetails call made meanwhile sends no request and leaves the
\* flag set, and the flag is cleared when the outstanding request completes.
C25_AtMostOneDetailsRequest ==
    /\ DetailsInFlight <= 1
    /\ renderer.isLoadingSessionDetails <=> DetailsInFlight = 1

\* A session was selected while the request for another one was in flight:
\* no second request was sent and the flag is still set.
C25_SelectedWhileOtherInFlight ==
    /\ DetailsInFlight = 1
    /\ renderer.isLoadingSessionDetails
    /\ renderer.clicks = 2
    /\ Head(renderer.detailsCalls).sessionId # renderer.currentSessionId

\* C26: when IPC calls are answered and the interval keeps firing, the
\* session that was selected last ends up displayed, as its conversation or
\* its error, and stays displayed.
C26_SelectedEventuallyDisplayed ==
    <>[](Truthy(renderer.currentSessionId) => (ShowsResult /\ ShowsSelected))

\* The reply for the session selected first arrived after another one was
\* selected: the display shows the first, the selection names the second.
C26_StaleConversationDisplayed ==
    /\ DetailsInFlight = 0
    /\ renderer.clicks = 2
    /\ ShowsResult
    /\ ~ShowsSelected

====
